---- MODULE Spec2Model ----
(***************************************************************************)
(* A model of scripts/library-compiler.js (class LibraryCompiler): the     *)
(* reference resolver, the glossary builder, the link compiler and the     *)
(* tree materializer.                                                      *)
(*                                                                         *)
(* JavaScript values are tagged records [t |-> <typeof/kind>, v |-> ...].  *)
(* A string is a sequence of characters, a character a one-character       *)
(* string (a named token stands for a character outside printable ASCII).  *)
(***************************************************************************)
EXTENDS Integers, Sequences, FiniteSets, TLC

VARIABLES
    pc,          \* the stage of the run that comes next
    files,       \* the input storage: path -> file
    libraryJSON, \* this.libraryJSON
    documents,   \* this.#documents
    appendices,  \* this.#appendices
    glossary,    \* this.#glossary
    output,      \* the destination storage: path -> directory or file
    written,     \* how many storage operations of #writeOutput have completed
    error,       \* what compile() threw, if it did
    argument,    \* the argument of a call of #compileGlossaryLinks on its own
    result,      \* what that call returned
    reads,       \* the readFile calls of the run so far, in order
    before,      \* the destination storage as the run found it
    heap         \* the objects of the resolver, when the run keeps them apart

vars == <<pc, files, libraryJSON, documents, appendices, glossary, output, written,
          error, argument, result, reads, before, heap>>

----------------------------------------------------------------------------
(* JavaScript values *)

Undefined == [t |-> "undefined"]
Null == [t |-> "null"]
JStr(s) == [t |-> "string", v |-> s]
JNum(n) == [t |-> "number", v |-> n]
JArr(a) == [t |-> "array", v |-> a]
JObj(o) == [t |-> "object", v |-> o]
JBool(b) == [t |-> "boolean", v |-> b]

IsNullish(x) == x.t \in {"undefined", "null"}

\* object[key]: undefined for a property the object does not have
Get(object, key) == IF key \in DOMAIN object.v THEN object.v[key] ELSE Undefined

\* the object with object[key] = value
Set(object, key, value) ==
    JObj([k \in DOMAIN object.v \cup {key} |-> IF k = key THEN value ELSE object.v[k]])

\* array.length, and the elements of an array or of nothing
ElementsOf(x) == IF x.t = "array" THEN x.v ELSE <<>>

----------------------------------------------------------------------------
(* Characters and strings *)

UpperCase == <<"A","B","C","D","E","F","G","H","I","J","K","L","M",
               "N","O","P","Q","R","S","T","U","V","W","X","Y","Z">>
LowerCase == <<"a","b","c","d","e","f","g","h","i","j","k","l","m",
               "n","o","p","q","r","s","t","u","v","w","x","y","z">>
Digits == <<"0","1","2","3","4","5","6","7","8","9">>

\* the 'i' flag: two characters match when their canonical forms agree
Canonicalize(c) ==
    IF \E i \in 1..26 : LowerCase[i] = c
    THEN UpperCase[CHOOSE i \in 1..26 : LowerCase[i] = c]
    ELSE c

IsDigit(c) == \E i \in 1..10 : Digits[i] = c
DigitValue(c) == (CHOOSE i \in 1..10 : Digits[i] = c) - 1

\* \s : space, tab, line feed, form feed (named tokens for the control ones)
WhiteSpace == {" ", "TAB", "NL", "FF"}

\* #glossaryEntryAdjacentCharacters = /[\s\,\.\!\-\(\)\'\"\“\”\’]/g
\* LDQUO, RDQUO, RSQUO stand for the three typographic quotes
glossaryEntryAdjacentCharacters ==
    WhiteSpace \cup {",", ".", "!", "-", "(", ")", "'", "\"", "LDQUO", "RDQUO", "RSQUO"}

\* the characters #createRegExpForGlossaryEntry's escape looks for
MetaCharacters == {"\\", "^", "$", ".", "*", "+", "?", "(", ")", "[", "]", "{", "}", "|"}

RECURSIVE Concat(_)
Concat(ss) == IF ss = <<>> THEN <<>> ELSE Head(ss) \o Concat(Tail(ss))

RECURSIVE Join(_, _)
Join(ss, sep) ==
    IF ss = <<>> THEN <<>>
    ELSE IF Len(ss) = 1 THEN ss[1]
    ELSE ss[1] \o sep \o Join(Tail(ss), sep)

\* decimal text of a natural number, as `${n}` gives it
RECURSIVE NumberToString(_)
NumberToString(n) ==
    IF n < 10 THEN <<Digits[n + 1]>>
    ELSE NumberToString(n \div 10) \o <<Digits[(n % 10) + 1]>>

----------------------------------------------------------------------------
(* Regular expressions, as far as #createRegExpForGlossaryEntry builds them:
   (previous)(alternative|alternative|...)(next) with the flags g and i.   *)

\* the pattern has three capturing groups
NcapturingParens == 3

\* escape = text => text.replace(/[\\\^\$\.\*\+\?\(\)\[\]\{\}\|]/g,
\*                               (...match) => `\\${match[1]}`)
\* the pattern has no group, so match[1] is the offset of the match in text
escape(text) ==
    Concat([i \in 1..Len(text) |->
              IF text[i] \in MetaCharacters
              THEN <<"\\">> \o NumberToString(i - 1)
              ELSE <<text[i]>>])

\* glossaryEntry.aliases ?? [] as a sequence of strings
AliasesOf(entry) ==
    LET aliases == ElementsOf(Get(entry, "aliases"))
    IN [i \in 1..Len(aliases) |-> aliases[i].v]

\* the source text of the second group: the escaped title and aliases joined by |
AlternativesSource(entry) ==
    Join([i \in 1..(1 + Len(AliasesOf(entry))) |->
            IF i = 1 THEN escape(Get(entry, "title").v) ELSE escape(AliasesOf(entry)[i - 1])],
         <<"|">>)

\* #createRegExpForGlossaryEntry: a RegExp object, its lastIndex at 0
createRegExpForGlossaryEntry(glossaryEntry) ==
    [t |-> "regexp",
     previous |-> "adjacent|^",
     source |-> AlternativesSource(glossaryEntry),
     next |-> "adjacent|$",
     flags |-> "gi",
     lastIndex |-> 0]

\* the character with a given code, for the codes an octal escape can name here
CharOfCode(n) ==
    CASE n = 0 -> "NUL"
      [] n = 9 -> "TAB"
      [] n = 10 -> "NL"
      [] n = 12 -> "FF"
      [] n = 32 -> " "
      [] n = 33 -> "!"
      [] n = 34 -> "\""
      [] n = 36 -> "$"
      [] n = 39 -> "'"
      [] n = 40 -> "("
      [] n = 41 -> ")"
      [] n = 44 -> ","
      [] n = 45 -> "-"
      [] n = 46 -> "."
      [] OTHER -> "chr" \o ToString(n)

IsOctalDigit(c) == IsDigit(c) /\ DigitValue(c) <= 7

RECURSIVE DecimalValue(_)
DecimalValue(ds) ==
    IF ds = <<>> THEN 0 ELSE 10 * DecimalValue(SubSeq(ds, 1, Len(ds) - 1)) + DigitValue(ds[Len(ds)])

RECURSIVE OctalValue(_)
OctalValue(ds) ==
    IF ds = <<>> THEN 0 ELSE 8 * OctalValue(SubSeq(ds, 1, Len(ds) - 1)) + DigitValue(ds[Len(ds)])

\* how many decimal digits src starts with
RECURSIVE LeadingDigits(_)
LeadingDigits(src) ==
    IF src # <<>> /\ IsDigit(Head(src)) THEN 1 + LeadingDigits(Tail(src)) ELSE 0

\* the length of a legacy octal escape at the start of src (src[1] is 0..7)
OctalLength(src) ==
    LET od(i) == i <= Len(src) /\ IsOctalDigit(src[i])
    IN IF DigitValue(src[1]) <= 3
       THEN (IF od(2) THEN (IF od(3) THEN 3 ELSE 2) ELSE 1)
       ELSE (IF od(2) THEN 2 ELSE 1)

\* The pattern parser on one alternative. Outside an escape every character left
\* by escape() is an ordinary one. A backslash is followed by decimal digits:
\* a back reference when the number is 1..NcapturingParens, otherwise a legacy
\* octal escape, or the digit itself for \8 and \9.
RECURSIVE ParseAlternative(_)
ParseAlternative(src) ==
    IF src = <<>> THEN <<>>
    ELSE IF Head(src) # "\\"
    THEN <<[k |-> "char", c |-> Head(src)]>> \o ParseAlternative(Tail(src))
    ELSE LET rest == Tail(src)
             nd == LeadingDigits(rest)
             after(n) == SubSeq(rest, n + 1, Len(rest))
         IN IF nd = 0
            THEN <<[k |-> "char", c |-> "\\"]>> \o ParseAlternative(rest)
            ELSE IF rest[1] # "0" /\ DecimalValue(SubSeq(rest, 1, nd)) <= NcapturingParens
            THEN <<[k |-> "backref", n |-> DecimalValue(SubSeq(rest, 1, nd))]>>
                 \o ParseAlternative(after(nd))
            ELSE IF ~IsOctalDigit(rest[1])
            THEN <<[k |-> "char", c |-> rest[1]]>> \o ParseAlternative(after(1))
            ELSE <<[k |-> "char",
                    c |-> CharOfCode(OctalValue(SubSeq(rest, 1, OctalLength(rest))))]>>
                 \o ParseAlternative(after(OctalLength(rest)))

\* the source of the second group split at its | separators
RECURSIVE SplitAlternatives(_, _)
SplitAlternatives(src, current) ==
    IF src = <<>> THEN <<current>>
    ELSE IF Head(src) = "|" THEN <<current>> \o SplitAlternatives(Tail(src), <<>>)
    ELSE SplitAlternatives(Tail(src), Append(current, Head(src)))

Alternatives(regExp) ==
    LET parts == SplitAlternatives(regExp.source, <<>>)
    IN [i \in 1..Len(parts) |-> ParseAlternative(parts[i])]

NoMatch == [ok |-> FALSE]

\* one alternative against s from position j (1-based), g1 the text the first
\* group captured: the position after the last character consumed, 0 when the
\* alternative does not match. A back reference to the first group repeats its
\* capture; the second and third group have captured nothing yet, so a back
\* reference to them matches the empty string.
RECURSIVE MatchAtoms(_, _, _, _)
MatchAtoms(atoms, s, j, g1) ==
    IF atoms = <<>> THEN j
    ELSE LET a == Head(atoms)
         IN IF a.k = "char"
            THEN IF j <= Len(s) /\ Canonicalize(s[j]) = Canonicalize(a.c)
                 THEN MatchAtoms(Tail(atoms), s, j + 1, g1)
                 ELSE 0
            ELSE IF a.n = 1 /\ g1 # <<>>
                 THEN IF j <= Len(s) /\ Canonicalize(s[j]) = Canonicalize(g1[1])
                      THEN MatchAtoms(Tail(atoms), s, j + 1, g1)
                      ELSE 0
                 ELSE MatchAtoms(Tail(atoms), s, j, g1)

\* The match that starts at position i, as the backtracking matcher finds it:
\* the first group tries an adjacent character, then ^; the second group tries
\* its alternatives in order; the third group tries an adjacent character, then $.
EndsAt(alts, s, i) ==
    [p \in 1..2, k \in 1..Len(alts) |->
        IF p = 1
        THEN (IF i <= Len(s) /\ s[i] \in glossaryEntryAdjacentCharacters
              THEN MatchAtoms(alts[k], s, i + 1, <<s[i]>>)
              ELSE 0)
        ELSE (IF i = 1 THEN MatchAtoms(alts[k], s, i, <<>>) ELSE 0)]

\* ends[p, k]: where the second group ends when the first group takes its
\* alternative p and the second its alternative k, 0 when that fails
MatchAmong(s, i, ends) ==
    LET good == {pk \in DOMAIN ends :
                    /\ ends[pk] # 0
                    /\ \/ ends[pk] <= Len(s) /\ s[ends[pk]] \in glossaryEntryAdjacentCharacters
                       \/ ends[pk] = Len(s) + 1}
    IN IF good = {} THEN NoMatch
       ELSE LET pk == CHOOSE x \in good :
                        \A y \in good : x[1] < y[1] \/ (x[1] = y[1] /\ x[2] <= y[2])
                en == ends[pk]
                adj == en <= Len(s) /\ s[en] \in glossaryEntryAdjacentCharacters
            IN [ok |-> TRUE,
                start |-> i,
                g1 |-> IF pk[1] = 1 THEN <<s[i]>> ELSE <<>>,
                g2 |-> SubSeq(s, IF pk[1] = 1 THEN i + 1 ELSE i, en - 1),
                g3 |-> IF adj THEN <<s[en]>> ELSE <<>>,
                end |-> IF adj THEN en + 1 ELSE en]

MatchAt(alts, s, i) == MatchAmong(s, i, EndsAt(alts, s, i))

\* RegExpBuiltinExec: the first position from i on at which the pattern matches
OrElse(m, later) == IF m.ok THEN m ELSE later

RECURSIVE ExecFrom(_, _, _)
ExecFrom(alts, s, i) ==
    IF i > Len(s) + 1 THEN NoMatch
    ELSE OrElse(MatchAt(alts, s, i), ExecFrom(alts, s, i + 1))

\* regExp.test(s) for a global pattern: the search starts at lastIndex, a
\* match leaves lastIndex at its end, a failure resets lastIndex to 0
TestOutcome(m) ==
    IF m.ok THEN [result |-> TRUE, lastIndex |-> m.end - 1]
    ELSE [result |-> FALSE, lastIndex |-> 0]

test(regExp, s) ==
    IF regExp.lastIndex > Len(s) THEN [result |-> FALSE, lastIndex |-> 0]
    ELSE TestOutcome(ExecFrom(Alternatives(regExp), s, regExp.lastIndex + 1))

\* whether the pattern matches s at all (a search from the start)
Matches(regExp, s) == ExecFrom(Alternatives(regExp), s, 1).ok

\* the replacement when the id stands in place of the matched text
ReplacementWithoutText(m, id) == m.g1 \o <<"$">> \o id \o <<"$">> \o m.g3

\* (...match) => `${match[1]}$${match[2]}:${glossaryEntry.id}$${match[3] ?? ''}`
Replacement(m, id) == m.g1 \o <<"$">> \o m.g2 \o <<":">> \o id \o <<"$">> \o m.g3

\* text.replaceAll(regExp, replacer) for a global pattern: the matches are
\* found left to right from position 0, each search starting where the last
\* match ended (one further after an empty match); the text between the
\* matches is kept
RECURSIVE ReplaceFrom(_, _, _, _, _)

NextSearch(m) == IF m.end = m.start THEN m.end + 1 ELSE m.end

ReplaceMatch(alts, id, s, sourcePosition, m) ==
    IF ~m.ok THEN SubSeq(s, sourcePosition, Len(s))
    ELSE IF m.start >= sourcePosition
    THEN SubSeq(s, sourcePosition, m.start - 1) \o Replacement(m, id)
         \o ReplaceFrom(alts, id, s, NextSearch(m), m.end)
    ELSE ReplaceFrom(alts, id, s, NextSearch(m), sourcePosition)

ReplaceFrom(alts, id, s, searchFrom, sourcePosition) ==
    ReplaceMatch(alts, id, s, sourcePosition, ExecFrom(alts, s, searchFrom))

replaceAll(s, regExp, id) == ReplaceFrom(Alternatives(regExp), id, s, 1, 1)

----------------------------------------------------------------------------
(* Array.prototype.sort as the engine runs it on a short array (fewer than 64
   elements make one run): the leading run is counted, reversed when it is
   strictly descending, and the other elements are put in place by binary
   insertion. cmp[x, y] is the number the comparator returns for (x, y).    *)

RECURSIVE CountRun(_, _, _, _)
CountRun(a, cmp, idx, descending) ==
    IF idx > Len(a) THEN Len(a)
    ELSE LET order == cmp[a[idx], a[idx - 1]]
         IN IF (descending /\ order >= 0) \/ (~descending /\ order < 0)
            THEN idx - 1
            ELSE CountRun(a, cmp, idx + 1, descending)

Reverse(a) == [i \in 1..Len(a) |-> a[Len(a) + 1 - i]]

RECURSIVE BinarySearch(_, _, _, _, _)
BinarySearch(a, cmp, pivot, left, right) ==
    IF left >= right THEN left
    ELSE LET mid == left + ((right - left) \div 2)
         IN IF cmp[pivot, a[mid + 1]] < 0
            THEN BinarySearch(a, cmp, pivot, left, mid)
            ELSE BinarySearch(a, cmp, pivot, mid + 1, right)

RECURSIVE BinaryInsertionSort(_, _, _)
BinaryInsertionSort(a, cmp, start) ==
    IF start >= Len(a) THEN a
    ELSE LET pivot == a[start + 1]
             left == BinarySearch(a, cmp, pivot, 0, start)
             b == [p \in 1..Len(a) |->
                     IF p - 1 < left THEN a[p]
                     ELSE IF p - 1 = left THEN pivot
                     ELSE IF p - 1 <= start THEN a[p - 1]
                     ELSE a[p]]
         IN BinaryInsertionSort(b, cmp, start + 1)

ArraySort(a, cmp) ==
    IF Len(a) < 2 THEN a
    ELSE LET descending == cmp[a[2], a[1]] < 0
             run == CountRun(a, cmp, 3, descending)
             made == IF descending
                     THEN Reverse(SubSeq(a, 1, run)) \o SubSeq(a, run + 1, Len(a))
                     ELSE a
         IN BinaryInsertionSort(made, cmp, run)

\* the comparators of @colonise/utilities
CharOrder == <<"-">> \o Digits \o LowerCase
CharRank(c) == CHOOSE i \in 1..Len(CharOrder) : CharOrder[i] = c

RECURSIVE compareStrings(_, _)
compareStrings(a, b) ==
    IF a = <<>> THEN (IF b = <<>> THEN 0 ELSE -1)
    ELSE IF b = <<>> THEN 1
    ELSE IF CharRank(Head(a)) < CharRank(Head(b)) THEN -1
    ELSE IF CharRank(Head(a)) > CharRank(Head(b)) THEN 1
    ELSE compareStrings(Tail(a), Tail(b))

\* compareBooleans(flag), as #parseGlossary calls it, with one argument:
\* an entry that is flagged sorts after the one it is compared with
compareBooleans(flag) == IF flag.t = "boolean" /\ flag.v THEN 1 ELSE 0

----------------------------------------------------------------------------
(* The glossary builder *)

Range(a) == {a[i] : i \in 1..Len(a)}

\* entryA.conflicts?.includes(id): undefined without a list
ConflictsInclude(entry, id) ==
    IF Get(entry, "conflicts").t = "array"
    THEN JBool(id \in Range(Get(entry, "conflicts").v))
    ELSE Undefined

\* the strings of otherEntry an entry's pattern is tested against:
\* [otherEntry.id, ...(otherEntry.aliases ?? [])]
ConflictStrings(otherEntry) == <<Get(otherEntry, "id").v>> \o AliasesOf(otherEntry)

\* strings.some(idOrAlias => regExp.test(idOrAlias)): the tests run in order
\* on the one pattern object and stop at the first that succeeds
RECURSIVE SomeTest(_, _)

WithLastIndex(regExp, lastIndex) == [regExp EXCEPT !.lastIndex = lastIndex]

SomeTestAfter(regExp, strings, r) ==
    IF r.result THEN [result |-> TRUE, regExp |-> WithLastIndex(regExp, r.lastIndex)]
    ELSE SomeTest(WithLastIndex(regExp, r.lastIndex), Tail(strings))

SomeTest(regExp, strings) ==
    IF strings = <<>> THEN [result |-> FALSE, regExp |-> regExp]
    ELSE SomeTestAfter(regExp, strings, test(regExp, Head(strings)))

\* otherEntry.conflicts ??= []; otherEntry.conflicts.push(id)
PushConflict(otherEntry, id) ==
    Set(otherEntry, "conflicts", JArr(Append(ElementsOf(Get(otherEntry, "conflicts")), id)))

\* one turn of the inner loop, r the outcome of entries[i]'s tests on entries[j]
Flagged(entries, i, j, r) ==
    LET tested == [entries EXCEPT ![i] = Set(entries[i], "regExp", r.regExp)]
    IN IF r.result
       THEN [tested EXCEPT ![j] = PushConflict(tested[j], Get(tested[i], "id"))]
       ELSE tested

\* the two nested loops over the entries, pair number k of Len^2 (row by row)
RECURSIVE DetectConflicts(_, _)
DetectConflicts(entries, k) ==
    LET n == Len(entries)
        i == (k \div n) + 1
        j == (k % n) + 1
    IN IF k >= n * n THEN entries
       ELSE IF i = j THEN DetectConflicts(entries, k + 1)
       ELSE DetectConflicts(
                Flagged(entries, i, j,
                        SomeTest(Get(entries[i], "regExp"), ConflictStrings(entries[j]))),
                k + 1)

\* const entry = {...rawEntry, descendantCount: 0}; entry.regExp = ...
NewEntry(rawEntry) ==
    Set(Set(rawEntry, "descendantCount", JNum(0)),
        "regExp", createRegExpForGlossaryEntry(rawEntry))

\* entries.sort(compareStringsBy(entry => entry.id))
SortById(entries) ==
    ArraySort(entries,
              [x \in Range(entries), y \in Range(entries) |->
                 compareStrings(Get(x, "id").v, Get(y, "id").v)])

\* entries.sort((entryA, entryB) => compareBooleans(entryA.conflicts?.includes(entryB.id)))
SortByConflicts(entries) ==
    ArraySort(entries,
              [x \in Range(entries), y \in Range(entries) |->
                 compareBooleans(ConflictsInclude(x, Get(y, "id")))])

\* the loop that makes an entry of every raw entry
NewEntries(raw) == [i \in 1..Len(raw) |-> NewEntry(raw[i])]

\* the object #parseGlossary returns, with the entries in their final order
GlossaryOf(rawGlossary, sorted) ==
    JObj([id |-> IF IsNullish(Get(rawGlossary, "id"))
                 THEN JStr(<<"g","l","o","s","s","a","r","y">>)
                 ELSE Get(rawGlossary, "id"),
          title |-> IF IsNullish(Get(rawGlossary, "title"))
                    THEN JStr(<<"G","l","o","s","s","a","r","y">>)
                    ELSE Get(rawGlossary, "title"),
          entries |-> JArr(sorted),
          descendantCount |-> JNum(Len(sorted))])

\* #parseGlossary
parseGlossary(rawGlossary) ==
    GlossaryOf(rawGlossary,
               SortByConflicts(SortById(DetectConflicts(
                   NewEntries(ElementsOf(Get(rawGlossary, "entries"))), 0))))

----------------------------------------------------------------------------
(* The link compiler *)

\* the loop of #compileGlossaryLinks over the entries in glossary order
RECURSIVE ApplyEntries(_, _)
ApplyEntries(entries, text) ==
    IF entries = <<>> THEN text
    ELSE ApplyEntries(Tail(entries),
                      replaceAll(text, Get(Head(entries), "regExp"), Get(Head(entries), "id").v))

\* #compileGlossaryLinks(text), with g for this.#glossary
compileGlossaryLinks(g, text) ==
    IF IsNullish(text) THEN Undefined
    ELSE IF Len(Get(g, "entries").v) = 0 THEN Undefined
    ELSE JStr(ApplyEntries(Get(g, "entries").v, text.v))

----------------------------------------------------------------------------
(* The input storage and the reference resolver.  A path is a sequence of
   segments (directory names, then the file name), each a string.  A file is
     [kind |-> "json", value |-> v]   text that JSON.parse turns into v
     [kind |-> "text", text |-> s]    text that is not JSON
   and a path outside DOMAIN files cannot be read.                          *)

Error(kind) == [t |-> "error", kind |-> kind]
\* the recursion that never returns
Diverges == [t |-> "diverges"]
IsBad(x) == x.t \in {"error", "diverges"}

IsLetter(c) == \E i \in 1..26 : c = UpperCase[i] \/ c = LowerCase[i]

StartsWith(s, prefix) == Len(s) >= Len(prefix) /\ SubSeq(s, 1, Len(prefix)) = prefix

JsonScheme == <<"j","s","o","n",":">>
MarkdownScheme == <<"m","a","r","k","d","o","w","n",":">>

\* fileString.trim().length === 0
IsBlank(s) == \A i \in 1..Len(s) : s[i] \in WhiteSpace

\* the text of a file as readFile(...).toString() gives it; the text of a JSON
\* file is written here as its first character and a token for the rest
FileText(file) ==
    IF file.kind = "text" THEN file.text
    ELSE IF file.value.t = "array" THEN <<"[", "...", "]">>
    ELSE IF file.value.t = "object" THEN <<"{", "...", "}">>
    ELSE IF file.value.t = "string" THEN <<"\"">> \o file.value.v \o <<"\"">>
    ELSE <<"...">>

\* #readJSONFile
readJSONFile(fs, filePath) ==
    IF filePath \notin DOMAIN fs THEN Error("ENOENT")
    ELSE IF fs[filePath].kind = "json" THEN fs[filePath].value
    ELSE IF IsBlank(fs[filePath].text) THEN Undefined
    ELSE Error("SyntaxError")

\* #readMarkdownFile
readMarkdownFile(fs, filePath) ==
    IF filePath \notin DOMAIN fs THEN Error("ENOENT")
    ELSE JStr(FileText(fs[filePath]))

\* #extractFilePath: text.replace(/^[a-zA-Z]+\:/, '')
RECURSIVE LeadingLetters(_)
LeadingLetters(text) ==
    IF text # <<>> /\ IsLetter(Head(text)) THEN 1 + LeadingLetters(Tail(text)) ELSE 0

extractFilePath(text) ==
    LET n == LeadingLetters(text)
    IN IF n >= 1 /\ n < Len(text) /\ text[n + 1] = ":"
       THEN SubSeq(text, n + 2, Len(text))
       ELSE text

\* the segments of a path string, split at "/"
RECURSIVE SplitPath(_, _)
SplitPath(text, current) ==
    IF text = <<>> THEN <<current>>
    ELSE IF Head(text) = "/" THEN <<current>> \o SplitPath(Tail(text), <<>>)
    ELSE SplitPath(Tail(text), Append(current, Head(text)))

\* path.join's normalisation: empty and "." segments go, ".." takes back a segment
RECURSIVE Normalize(_, _)
Normalize(done, segments) ==
    IF segments = <<>> THEN done
    ELSE LET seg == Head(segments)
         IN IF seg = <<>> \/ seg = <<".">> THEN Normalize(done, Tail(segments))
            ELSE IF seg = <<".", ".">> /\ done # <<>> /\ done[Len(done)] # <<".", ".">>
            THEN Normalize(SubSeq(done, 1, Len(done) - 1), Tail(segments))
            ELSE Normalize(Append(done, seg), Tail(segments))

dirname(path) == SubSeq(path, 1, Len(path) - 1)

\* #resolveRelativeFilePath: join(dirname(currentFilePath), filePath)
resolveRelativeFilePath(currentFilePath, filePath) ==
    Normalize(<<>>, dirname(currentFilePath) \o SplitPath(filePath, <<>>))

\* Object.keys(result) of an object of the input: its properties in the order
\* the files of the model write them
KeyOrder == <<"id", "referenceId", "title", "description", "aliases",
              "reference", "documents", "sections", "appendices", "glossary", "entries">>

KeysOf(o) ==
    LET present == {i \in 1..Len(KeyOrder) : KeyOrder[i] \in DOMAIN o}
        nth[n \in 1..Cardinality(present)] ==
            CHOOSE i \in present : Cardinality({j \in present : j < i}) = n - 1
    IN [n \in 1..Cardinality(present) |-> KeyOrder[nth[n]]]

\* the first failure among results that were computed in order, if any
FirstBad(results) ==
    LET bad == {i \in 1..Len(results) : IsBad(results[i])}
    IN IF bad = {} THEN Undefined
       ELSE results[CHOOSE i \in bad : \A j \in bad : i <= j]

\* {...object} of a value that is neither an array nor null/undefined: the own
\* properties of an object, the characters of a string, nothing of a number
\* or a boolean
SpreadOf(object) ==
    IF object.t = "object" THEN object.v
    ELSE IF object.t = "string"
    THEN [k \in {ToString(i - 1) : i \in 1..Len(object.v)} |->
            JStr(<<object.v[CHOOSE i \in 1..Len(object.v) : ToString(i - 1) = k]>>)]
    ELSE [k \in {} |-> Undefined]

\* #resolveFiles and #readJSONFileAndResolveFiles.  loading is the set of the
\* files whose load is under way: a file that is loaded inside its own load is
\* loaded the same way again, and the recursion has no end.
RECURSIVE resolveFiles(_, _, _, _)
RECURSIVE readJSONFileAndResolveFiles(_, _, _)
RECURSIVE ResolveProperty(_, _, _, _)

\* the outer #resolveFiles of what a json: reference loaded
ResolveLoaded(fs, loaded, filePath, loading) ==
    IF IsBad(loaded) THEN loaded ELSE resolveFiles(fs, loaded, filePath, loading)

\* case 'string' when the branch for json: is left out
ResolveStringOnlyMarkdown(fs, propertyValue, filePath, loading, target) ==
    IF StartsWith(propertyValue.v, MarkdownScheme)
    THEN readMarkdownFile(fs, target)
    ELSE propertyValue

\* case 'string', target the path the value names
ResolveString(fs, propertyValue, filePath, loading, target) ==
    IF StartsWith(propertyValue.v, JsonScheme)
    THEN ResolveLoaded(fs, readJSONFileAndResolveFiles(fs, target, loading), filePath, loading)
    ELSE IF StartsWith(propertyValue.v, MarkdownScheme)
    THEN readMarkdownFile(fs, target)
    ELSE propertyValue

\* one turn of the loop over Object.keys(result)
ResolveProperty(fs, propertyValue, filePath, loading) ==
    IF propertyValue.t = "string"
    THEN ResolveString(fs, propertyValue, filePath, loading,
                       resolveRelativeFilePath(filePath, extractFilePath(propertyValue.v)))
    ELSE IF propertyValue.t \in {"object", "array", "null"}
    THEN resolveFiles(fs, propertyValue, filePath, loading)
    ELSE propertyValue

ResolveEach(fs, values, filePath, loading) ==
    [n \in 1..Len(values) |-> ResolveProperty(fs, values[n], filePath, loading)]

\* the values of copy in the order of its keys
ValuesOf(copy) == [n \in 1..Len(KeysOf(copy)) |-> copy[KeysOf(copy)[n]]]

\* result when it is an array / an object, results the new values in key
\* order; the first failure ends the loop
ResolvedArray(results) ==
    IF IsBad(FirstBad(results)) THEN FirstBad(results) ELSE JArr(results)

ResolvedObject(copy, results) ==
    IF IsBad(FirstBad(results)) THEN FirstBad(results)
    ELSE JObj([k \in DOMAIN copy |->
                 results[CHOOSE n \in 1..Len(KeysOf(copy)) : KeysOf(copy)[n] = k]])

resolveFiles(fs, object, filePath, loading) ==
    IF IsNullish(object) THEN Undefined
    ELSE IF object.t = "array"
    THEN ResolvedArray(ResolveEach(fs, object.v, filePath, loading))
    ELSE IF object.t = "string"
    THEN \* every property is a one-character string, which starts with no scheme
         JObj(SpreadOf(object))
    ELSE ResolvedObject(SpreadOf(object),
                        ResolveEach(fs, ValuesOf(SpreadOf(object)), filePath, loading))

readJSONFileAndResolveFiles(fs, filePath, loading) ==
    LET fileJSON == readJSONFile(fs, filePath)
    IN IF IsBad(fileJSON) THEN fileJSON
       ELSE IF filePath \in loading THEN Diverges
       ELSE resolveFiles(fs, fileJSON, filePath, loading \cup {filePath})

\* The paths the same calls hand to readFile, in call order.  A loop ends at
\* the first property that fails, so what comes after it is not read.
RECURSIVE ReadsOfResolveFiles(_, _, _, _)
RECURSIVE ReadsOfLoad(_, _, _)

\* the outer #resolveFiles of what a json: reference loaded
ReadsOfLoaded(fs, loaded, filePath, loading) ==
    IF IsBad(loaded) THEN <<>> ELSE ReadsOfResolveFiles(fs, loaded, filePath, loading)

\* case 'string', target the path the value names
ReadsOfString(fs, propertyValue, filePath, loading, target) ==
    IF StartsWith(propertyValue.v, JsonScheme)
    THEN ReadsOfLoad(fs, target, loading)
         \o ReadsOfLoaded(fs, readJSONFileAndResolveFiles(fs, target, loading), filePath, loading)
    ELSE IF StartsWith(propertyValue.v, MarkdownScheme)
    THEN <<target>>
    ELSE <<>>

ReadsOfProperty(fs, propertyValue, filePath, loading) ==
    IF propertyValue.t = "string"
    THEN ReadsOfString(fs, propertyValue, filePath, loading,
                       resolveRelativeFilePath(filePath, extractFilePath(propertyValue.v)))
    ELSE IF propertyValue.t \in {"object", "array", "null"}
    THEN ReadsOfResolveFiles(fs, propertyValue, filePath, loading)
    ELSE <<>>

\* how many turns of the loop run: up to the first failure
TurnsOf(results) ==
    IF \E i \in 1..Len(results) : IsBad(results[i])
    THEN CHOOSE i \in 1..Len(results) :
            IsBad(results[i]) /\ \A j \in 1..(i - 1) : ~IsBad(results[j])
    ELSE Len(results)

ReadsOfEach(fs, values, filePath, loading) ==
    Concat([n \in 1..TurnsOf(ResolveEach(fs, values, filePath, loading)) |->
              ReadsOfProperty(fs, values[n], filePath, loading)])

ReadsOfResolveFiles(fs, object, filePath, loading) ==
    IF IsNullish(object) \/ object.t = "string" THEN <<>>
    ELSE IF object.t = "array" THEN ReadsOfEach(fs, object.v, filePath, loading)
    ELSE ReadsOfEach(fs, ValuesOf(SpreadOf(object)), filePath, loading)

ReadsOfLoad(fs, filePath, loading) ==
    <<filePath>>
    \o (IF IsBad(readJSONFile(fs, filePath)) \/ filePath \in loading THEN <<>>
        ELSE ReadsOfResolveFiles(fs, readJSONFile(fs, filePath), filePath,
                                 loading \cup {filePath}))

----------------------------------------------------------------------------
(* The resolver with its objects kept apart.  An array or an object is a cell
   of the heap, and a value that holds one holds a reference to its cell:
   h.cells[a] is the cell at address a, [t |-> "array", v |-> <<slots>>] or
   [t |-> "object", v |-> [key |-> slot]], a slot a scalar or a reference.
   h.parsed lists what JSON.parse has made: the slot, and the value that the
   file text stands for.                                                     *)

Ref(a) == [t |-> "ref", a |-> a]

EmptyHeap == [cells |-> <<>>, parsed |-> <<>>, result |-> Undefined]

\* the value that a slot stands for
RECURSIVE Deref(_, _)
Deref(cells, slot) ==
    IF slot.t # "ref" THEN slot
    ELSE IF cells[slot.a].t = "array"
    THEN JArr([i \in 1..Len(cells[slot.a].v) |-> Deref(cells, cells[slot.a].v[i])])
    ELSE JObj([k \in DOMAIN cells[slot.a].v |-> Deref(cells, cells[slot.a].v[k])])

\* JSON.parse: a new cell for every array and object of the value, the
\* elements first
RECURSIVE AllocateValue(_, _)
RECURSIVE AllocateEach(_, _)

NewCell(h, kind, slots) ==
    [h |-> [h EXCEPT !.cells = Append(@, [t |-> kind, v |-> slots])],
     slot |-> Ref(Len(h.cells) + 1)]

AllocatedObject(o, each) ==
    NewCell(each.h, "object",
            [k \in DOMAIN o |-> each.slots[CHOOSE n \in 1..Len(KeysOf(o)) : KeysOf(o)[n] = k]])

AllocateValue(h, value) ==
    IF value.t = "array" THEN NewCell(AllocateEach(h, value.v).h, "array",
                                      AllocateEach(h, value.v).slots)
    ELSE IF value.t = "object" THEN AllocatedObject(value.v, AllocateEach(h, ValuesOf(value.v)))
    ELSE [h |-> h, slot |-> value]

AllocatedRest(first, rest) == [h |-> rest.h, slots |-> <<first.slot>> \o rest.slots]

AllocatedFirst(first, values) == AllocatedRest(first, AllocateEach(first.h, Tail(values)))

AllocateEach(h, values) ==
    IF values = <<>> THEN [h |-> h, slots |-> <<>>]
    ELSE AllocatedFirst(AllocateValue(h, Head(values)), values)

RECURSIVE resolveFilesOnHeap(_, _, _, _, _)
RECURSIVE readJSONFileAndResolveFilesOnHeap(_, _, _, _)
RECURSIVE ResolveKeysOnHeap(_, _, _, _, _, _)

\* the cell that [...object] or {...object} makes
CopyOf(h, object) ==
    IF object.t = "ref" THEN h.cells[object.a] ELSE [t |-> "object", v |-> SpreadOf(object)]

\* Object.keys(result): the indices of an array, the keys of an object
KeysOfCell(cell) ==
    IF cell.t = "array" THEN [i \in 1..Len(cell.v) |-> i] ELSE KeysOf(cell.v)

\* the outer #resolveFiles of what a json: reference loaded
ResolveLoadedOnHeap(fs, r, filePath, loading) ==
    IF IsBad(r.slot) THEN r ELSE resolveFilesOnHeap(fs, r.h, r.slot, filePath, loading)

\* case 'string', target the path the value names
ResolveStringOnHeap(fs, h, propertyValue, filePath, loading, target) ==
    IF StartsWith(propertyValue.v, JsonScheme)
    THEN ResolveLoadedOnHeap(fs, readJSONFileAndResolveFilesOnHeap(fs, h, target, loading),
                             filePath, loading)
    ELSE IF StartsWith(propertyValue.v, MarkdownScheme)
    THEN [h |-> h, slot |-> readMarkdownFile(fs, target)]
    ELSE [h |-> h, slot |-> propertyValue]

\* the switch on typeof propertyValue
ResolvePropertyOnHeap(fs, h, propertyValue, filePath, loading) ==
    IF propertyValue.t = "string"
    THEN ResolveStringOnHeap(fs, h, propertyValue, filePath, loading,
                             resolveRelativeFilePath(filePath, extractFilePath(propertyValue.v)))
    ELSE IF propertyValue.t \in {"ref", "null"}
    THEN resolveFilesOnHeap(fs, h, propertyValue, filePath, loading)
    ELSE [h |-> h, slot |-> propertyValue]

\* result[propertyKey] = r.slot for the first of keys, then the other turns
\* of the loop; a failure ends the loop
AssignOnHeap(fs, copy, keys, filePath, loading, r) ==
    IF IsBad(r.slot) THEN r
    ELSE ResolveKeysOnHeap(fs, [r.h EXCEPT !.cells[copy].v[Head(keys)] = r.slot],
                           copy, Tail(keys), filePath, loading)

\* the loop over Object.keys(result), copy the address of result
ResolveKeysOnHeap(fs, h, copy, keys, filePath, loading) ==
    IF keys = <<>> THEN [h |-> h, slot |-> Ref(copy)]
    ELSE AssignOnHeap(fs, copy, keys, filePath, loading,
                      ResolvePropertyOnHeap(fs, h, h.cells[copy].v[Head(keys)],
                                            filePath, loading))

\* #resolveFiles when it works on the object it is given and makes no copy
resolveFilesInPlace(fs, h, object, filePath, loading) ==
    IF IsNullish(object) THEN [h |-> h, slot |-> Undefined]
    ELSE IF object.t = "ref"
    THEN ResolveKeysOnHeap(fs, h, object.a, KeysOfCell(h.cells[object.a]), filePath, loading)
    ELSE ResolveKeysOnHeap(fs, [h EXCEPT !.cells = Append(@, CopyOf(h, object))],
                           Len(h.cells) + 1, KeysOfCell(CopyOf(h, object)), filePath, loading)

\* #resolveFiles
resolveFilesOnHeap(fs, h, object, filePath, loading) ==
    IF IsNullish(object) THEN [h |-> h, slot |-> Undefined]
    ELSE ResolveKeysOnHeap(fs, [h EXCEPT !.cells = Append(@, CopyOf(h, object))],
                           Len(h.cells) + 1, KeysOfCell(CopyOf(h, object)), filePath, loading)

\* #resolveFiles on what JSON.parse made of the file text
ParsedOnHeap(fs, made, fileJSON, filePath, loading) ==
    resolveFilesOnHeap(fs,
                       [made.h EXCEPT !.parsed = Append(@, [slot |-> made.slot, value |-> fileJSON])],
                       made.slot, filePath, loading)

\* #readJSONFileAndResolveFiles
readJSONFileAndResolveFilesOnHeap(fs, h, filePath, loading) ==
    IF IsBad(readJSONFile(fs, filePath)) THEN [h |-> h, slot |-> readJSONFile(fs, filePath)]
    ELSE IF filePath \in loading THEN [h |-> h, slot |-> Diverges]
    ELSE ParsedOnHeap(fs, AllocateValue(h, readJSONFile(fs, filePath)),
                      readJSONFile(fs, filePath), filePath, loading \cup {filePath})

----------------------------------------------------------------------------
(* The documents parser *)

RECURSIVE SumOf(_)
SumOf(numbers) == IF numbers = <<>> THEN 0 ELSE Head(numbers) + SumOf(Tail(numbers))

\* the count when the children's own counts are left out of the sum
CountChildrenOnly(children) == Len(children)

\* children.length + children.reduce((a, child) => a + child.descendantCount, 0)
CountDescendants(children) ==
    Len(children) + SumOf([i \in 1..Len(children) |-> Get(children[i], "descendantCount").v])

\* raw.sections ?? []
SectionsOrNone(raw) == ElementsOf(Get(raw, "sections"))

\* {...raw, sections: children} with its descendantCount set
WithSections(raw, children) ==
    Set(Set(JObj(SpreadOf(raw)), "sections", JArr(children)),
        "descendantCount", JNum(CountDescendants(children)))

\* #parseSections
RECURSIVE parseSections(_)
parseSections(rawSections) ==
    [i \in 1..Len(rawSections) |->
        WithSections(rawSections[i], parseSections(SectionsOrNone(rawSections[i])))]

\* the object #parseDocuments returns
DocumentsNode(newDocuments) ==
    JObj([id |-> JStr(<<"d","o","c","u","m","e","n","t","s">>),
          title |-> JStr(<<"D","o","c","u","m","e","n","t","s">>),
          documents |-> JArr(newDocuments),
          descendantCount |-> JNum(CountDescendants(newDocuments))])

\* #parseDocuments; for...of over anything but an array throws
parseDocuments(rawDocuments) ==
    IF rawDocuments.t # "array" THEN Error("TypeError")
    ELSE DocumentsNode([i \in 1..Len(rawDocuments.v) |->
                           WithSections(rawDocuments.v[i],
                                        parseSections(SectionsOrNone(rawDocuments.v[i])))])

\* #parseAppendices: {...(rawAppendices ?? {})}
parseAppendices(rawAppendices) ==
    IF IsNullish(rawAppendices) THEN JObj([k \in {} |-> Undefined])
    ELSE IF rawAppendices.t = "array"
    THEN JObj([k \in {ToString(i - 1) : i \in 1..Len(rawAppendices.v)} |->
                 rawAppendices.v[CHOOSE i \in 1..Len(rawAppendices.v) : ToString(i - 1) = k]])
    ELSE JObj(SpreadOf(rawAppendices))

----------------------------------------------------------------------------
(* The deep link compiler.  Each step gives the rewritten node(s) and the
   number of calls of #compileGlossaryLinks it made.                        *)

\* mutate(object, property) with property = 'description'
mutate(g, object) ==
    IF object.t = "object" /\ Get(object, "description").t = "string"
    THEN [node |-> Set(object, "description",
                       compileGlossaryLinks(g, Get(object, "description"))),
          calls |-> 1]
    ELSE [node |-> object, calls |-> 0]

\* mutateSections(sections)
RECURSIVE mutateSections(_, _)

\* a section after mutate (own) and after mutateSections on its sections (below)
SectionDone(own, below) ==
    [node |-> IF "sections" \in DOMAIN own.node.v
              THEN Set(own.node, "sections", below.node)
              ELSE own.node,
     calls |-> own.calls + below.calls]

SectionBelow(g, own) == SectionDone(own, mutateSections(g, Get(own.node, "sections")))

SectionsDone(each) ==
    [node |-> JArr([i \in 1..Len(each) |-> each[i].node]),
     calls |-> SumOf([i \in 1..Len(each) |-> each[i].calls])]

mutateSections(g, sections) ==
    IF sections.t # "array" THEN [node |-> sections, calls |-> 0]
    ELSE SectionsDone([i \in 1..Len(sections.v) |-> SectionBelow(g, mutate(g, sections.v[i]))])

\* the loop over the documents; it returns from the whole method at the first
\* document without sections (returned = TRUE)
RECURSIVE mutateDocuments(_, _, _)

DocumentDone(own, below, rest) ==
    [docs |-> rest.docs,
     calls |-> own.calls + below.calls + rest.calls,
     returned |-> rest.returned]

DocumentRest(g, docs, i, own, below) ==
    DocumentDone(own, below,
                 mutateDocuments(g, [docs EXCEPT ![i] = Set(own.node, "sections", below.node)],
                                 i + 1))

DocumentBelow(g, docs, i, own) ==
    IF IsNullish(Get(own.node, "sections")) \/ Len(ElementsOf(Get(own.node, "sections"))) = 0
    THEN [docs |-> [docs EXCEPT ![i] = own.node], calls |-> own.calls, returned |-> TRUE]
    ELSE DocumentRest(g, docs, i, own, mutateSections(g, Get(own.node, "sections")))

mutateDocuments(g, docs, i) ==
    IF i > Len(docs) THEN [docs |-> docs, calls |-> 0, returned |-> FALSE]
    ELSE DocumentBelow(g, docs, i, mutate(g, docs[i]))

\* replaceAll leaves the lastIndex of the pattern it ran at 0
ResetLastIndex(entry) ==
    Set(entry, "regExp", [Get(entry, "regExp") EXCEPT !.lastIndex = 0])

\* the loop over the glossary entries, which a return in the loop over the
\* documents leaves out
EntriesDone(g, ds) ==
    [i \in 1..Len(Get(g, "entries").v) |->
        IF ds.returned THEN [node |-> Get(g, "entries").v[i], calls |-> 0]
        ELSE mutate(g, Get(g, "entries").v[i])]

AllDone(docs, g, lib, ds, es) ==
    LET calls == lib.calls + ds.calls + SumOf([i \in 1..Len(es) |-> es[i].calls])
    IN [libraryJSON |-> lib.node,
        documents |-> Set(docs, "documents", JArr(ds.docs)),
        glossary |-> Set(g, "entries",
                         JArr([i \in 1..Len(es) |->
                                 IF calls > 0 THEN ResetLastIndex(es[i].node)
                                 ELSE es[i].node]))]

DocumentsDone(docs, g, lib, ds) == AllDone(docs, g, lib, ds, EntriesDone(g, ds))

\* the method without the return of its first lines
deepCompileWithoutReturn(library, docs, g) ==
    DocumentsDone(docs, g, mutate(g, library),
                  mutateDocuments(g, Get(docs, "documents").v, 1))

\* #deepCompileGlossaryLinks on (this.libraryJSON, this.#documents, this.#glossary)
deepCompileGlossaryLinks(library, docs, g) ==
    IF Len(Get(g, "entries").v) = 0 \/ Len(Get(docs, "documents").v) = 0
    THEN [libraryJSON |-> library, documents |-> docs, glossary |-> g]
    ELSE DocumentsDone(docs, g, mutate(g, library),
                       mutateDocuments(g, Get(docs, "documents").v, 1))

----------------------------------------------------------------------------
(* The exporter.  What is written is the JSON text of a value; the model keeps
   the value that text parses to.  A destination path is a sequence of
   segments below this.outputFilePath.                                       *)

AdjacentSource == <<"[","\\","s","\\",",","\\",".","\\","!","\\","-","\\","(","\\",")","\\","'","\\","\"">> \o <<"\\", "LDQUO", "\\", "RDQUO", "\\", "RSQUO", "]">>

\* regExp.toString(): /source/flags
RegExpToString(regExp) ==
    <<"/", "(">> \o AdjacentSource \o <<"|", "^", ")", "(">> \o regExp.source
    \o <<")", "(">> \o AdjacentSource \o <<"|", "$", ")", "/", "g", "i">>

\* #stringify: JSON.stringify with a replacer that turns a RegExp into its
\* text; a property that is undefined is left out, an undefined element of an
\* array is written as null
RECURSIVE stringify(_)
stringify(value) ==
    IF value.t = "object"
    THEN JObj([k \in {key \in DOMAIN value.v : value.v[key].t # "undefined"} |->
                 stringify(value.v[k])])
    ELSE IF value.t = "array"
    THEN JArr([i \in 1..Len(value.v) |->
                 IF value.v[i].t = "undefined" THEN Null ELSE stringify(value.v[i])])
    ELSE IF value.t = "regexp" THEN JStr(RegExpToString(value))
    ELSE value

\* `${x}` of a value
TemplateText(x) ==
    IF x.t = "string" THEN x.v
    ELSE IF x.t = "number" THEN NumberToString(x.v)
    ELSE IF x.t = "null" THEN <<"n","u","l","l">>
    ELSE <<"u","n","d","e","f","i","n","e","d">>

JsonExtension == <<".","j","s","o","n">>

\* the list of the children when each child is put there whole
createChildrenEmbedded(parentId, children) ==
    IF children.t = "undefined" \/ Len(children.v) = 0 THEN Undefined ELSE children

\* #createChildrenIdAndJSONPathArray(parentId, children, 'json')
createChildrenIdAndJSONPathArray(parentId, children) ==
    IF children.t = "undefined" \/ Len(children.v) = 0 THEN Undefined
    ELSE JArr([i \in 1..Len(children.v) |->
                 JObj([id |-> Get(children.v[i], "id"),
                       jsonPath |-> JStr(<<".", "/">> \o parentId \o <<"/">>
                                         \o TemplateText(Get(children.v[i], "id"))
                                         \o JsonExtension),
                       title |-> Get(children.v[i], "title"),
                       descendantCount |-> Get(children.v[i], "descendantCount")])])

Rm(path) == [op |-> "rm", path |-> path]
Mkdir(path) == [op |-> "mkdir", path |-> path]
WriteFile(path, value) == [op |-> "writeFile", path |-> path, data |-> stringify(value)]

\* `${parentPath}/${id}.json` and `${parentPath}/${id}`
FileIn(parentPath, id) == Append(parentPath, TemplateText(id) \o JsonExtension)

\* the directory of the children when the id of the parent is left out
DirectoryFlat(parentPath, id) == parentPath

DirectoryIn(parentPath, id) == Append(parentPath, TemplateText(id))

\* #writeDocumentSectionOutput and #tryWriteDocumentSectionsOutput: the
\* storage operations they issue, in order
RECURSIVE writeDocumentSectionOutput(_, _)
RECURSIVE tryWriteDocumentSectionsOutput(_, _)

tryWriteDocumentSectionsOutput(idAndSections, parentPath) ==
    LET id == Get(idAndSections, "id")
        sections == Get(idAndSections, "sections")
    IN IF id.t # "undefined" /\ sections.t # "undefined" /\ Len(sections.v) > 0
       THEN <<Mkdir(DirectoryIn(parentPath, id))>>
            \o Concat([i \in 1..Len(sections.v) |->
                         writeDocumentSectionOutput(sections.v[i], DirectoryIn(parentPath, id))])
       ELSE <<>>

writeDocumentSectionOutput(section, parentPath) ==
    tryWriteDocumentSectionsOutput(section, parentPath)
    \o <<WriteFile(FileIn(parentPath, Get(section, "id")),
                   JObj([id |-> Get(section, "id"),
                         refereneId |-> Get(section, "referenceId"),
                         title |-> Get(section, "title"),
                         description |-> Get(section, "description"),
                         sections |-> createChildrenIdAndJSONPathArray(
                                          TemplateText(Get(section, "id")),
                                          Get(section, "sections")),
                         descendantCount |-> Get(section, "descendantCount")]))>>

DocumentsName == <<"d","o","c","u","m","e","n","t","s">>
AppendicesName == <<"a","p","p","e","n","d","i","c","e","s">>
GlossaryName == <<"g","l","o","s","s","a","r","y">>
LibraryName == <<"l","i","b","r","a","r","y">>

\* what #writeDocumentsOutput and #writeGlossaryOutput return
Details(node, name) ==
    JObj([id |-> Get(node, "id"),
          jsonPath |-> JStr(<<".", "/">> \o name \o JsonExtension),
          title |-> Get(node, "title"),
          descendantCount |-> Get(node, "descendantCount")])

\* #writeDocumentsOutput
writeDocumentsOutput(docs) ==
    LET directoryPath == <<DocumentsName>>
        list == Get(docs, "documents").v
    IN <<Mkdir(directoryPath)>>
       \o Concat([i \in 1..Len(list) |->
                    tryWriteDocumentSectionsOutput(list[i], directoryPath)
                    \o <<WriteFile(FileIn(directoryPath, Get(list[i], "id")),
                                   JObj([id |-> Get(list[i], "id"),
                                         title |-> Get(list[i], "title"),
                                         description |-> Get(list[i], "description"),
                                         sections |-> createChildrenIdAndJSONPathArray(
                                                          TemplateText(Get(list[i], "id")),
                                                          Get(list[i], "sections")),
                                         descendantCount |-> Get(list[i], "descendantCount")]))>>])
       \o <<WriteFile(<<DocumentsName \o JsonExtension>>,
                      JObj([id |-> Get(docs, "id"),
                            title |-> Get(docs, "title"),
                            documents |-> createChildrenIdAndJSONPathArray(
                                              DocumentsName, Get(docs, "documents")),
                            descendantCount |-> Get(docs, "descendantCount")]))>>

\* #writeAppendicesOutput
writeAppendicesOutput(apps) ==
    <<Mkdir(<<AppendicesName>>),
      WriteFile(<<AppendicesName \o JsonExtension>>, apps)>>

\* what #writeAppendicesOutput returns
AppendicesDetails(apps) ==
    JObj([id |-> Get(apps, "id"),
          jsonPath |-> JStr(<<".", "/">> \o AppendicesName \o JsonExtension),
          title |-> IF IsNullish(Get(apps, "title")) THEN JStr(<<"A","p","p","e","n","d","i","c","e","s">>)
                    ELSE Get(apps, "title"),
          descendantCount |-> JNum(0)])

\* #writeGlossaryOutput
writeGlossaryOutput(g) ==
    LET directoryPath == <<GlossaryName>>
        entries == Get(g, "entries").v
    IN <<Mkdir(directoryPath)>>
       \o [i \in 1..Len(entries) |->
             WriteFile(FileIn(directoryPath, Get(entries[i], "id")),
                       JObj([id |-> Get(entries[i], "id"),
                             title |-> Get(entries[i], "title"),
                             description |-> Get(entries[i], "description"),
                             aliases |-> Get(entries[i], "aliases"),
                             reference |-> Get(entries[i], "reference"),
                             regExp |-> Get(entries[i], "regExp")]))]
       \o <<WriteFile(<<GlossaryName \o JsonExtension>>,
                      JObj([id |-> Get(g, "id"),
                            title |-> Get(g, "title"),
                            entries |-> createChildrenIdAndJSONPathArray(
                                            GlossaryName, Get(g, "entries")),
                            descendantCount |-> Get(g, "descendantCount")]))>>

\* #writeLibraryOutput
writeLibraryOutput(library, documentsDetails, appendicesDetails, glossaryDetails) ==
    <<WriteFile(<<LibraryName \o JsonExtension>>,
                JObj([title |-> Get(library, "title"),
                      description |-> Get(library, "description"),
                      reference |-> Get(library, "reference"),
                      documents |-> documentsDetails,
                      appendices |-> appendicesDetails,
                      glossary |-> glossaryDetails,
                      descendantCount |->
                          JNum(Get(documentsDetails, "descendantCount").v + 1
                               + Get(appendicesDetails, "descendantCount").v + 1
                               + Get(glossaryDetails, "descendantCount").v + 1)]))>>

\* the four writers when library.json is written first
WriteLibraryFirst(library, docs, apps, g) ==
    writeLibraryOutput(library,
                       Details(docs, DocumentsName),
                       AppendicesDetails(apps),
                       Details(g, GlossaryName))
    \o writeDocumentsOutput(docs)
    \o writeAppendicesOutput(apps)
    \o writeGlossaryOutput(g)

\* the four writers that #writeOutput calls, in order
WriteArtifacts(library, docs, apps, g) ==
    writeDocumentsOutput(docs)
    \o writeAppendicesOutput(apps)
    \o writeGlossaryOutput(g)
    \o writeLibraryOutput(library,
                          Details(docs, DocumentsName),
                          AppendicesDetails(apps),
                          Details(g, GlossaryName))

\* the write stage when the destination is not removed first
writeOutputOverOld(library, docs, apps, g) ==
    <<Mkdir(<<>>), Mkdir(<<>>)>> \o WriteArtifacts(library, docs, apps, g)

\* #writeOutput: every storage operation of the write stage, in order
writeOutput(library, docs, apps, g) ==
    <<Rm(<<>>), Mkdir(<<>>)>> \o WriteArtifacts(library, docs, apps, g)

\* the destination after one storage operation
IsUnder(path, directory) ==
    Len(path) >= Len(directory) /\ SubSeq(path, 1, Len(directory)) = directory

ApplyOperation(storage, operation) ==
    IF operation.op = "rm"
    THEN [p \in {q \in DOMAIN storage : ~IsUnder(q, operation.path)} |-> storage[p]]
    ELSE [p \in DOMAIN storage \cup {operation.path} |->
            IF p = operation.path
            THEN (IF operation.op = "mkdir" THEN [kind |-> "directory"]
                  ELSE [kind |-> "file", data |-> operation.data])
            ELSE storage[p]]

----------------------------------------------------------------------------
(* Inputs *)

\* bounds of the inputs
MaxEntries == 3      \* raw glossary entries handed to #parseGlossary
MaxLinkEntries == 2  \* glossary entries when one text is compiled
MaxWords == 3        \* words and separators in a compiled text
MaxNodes == 4        \* documents and sections of a library
MaxDocuments == 2    \* documents of a library

SeqsUpTo(S, n) == UNION {[1..m -> S] : m \in 0..n}
IsInjective(a) == \A i, j \in 1..Len(a) : a[i] = a[j] => i = j

RawEntry(id, title, aliases, description) ==
    JObj([id |-> JStr(id), title |-> JStr(title), aliases |-> aliases,
          description |-> JStr(description)])

PackEntry == RawEntry(<<"p","a","c","k">>, <<"P","a","c","k">>, JArr(<<JStr(<<"p","a","c","k","s">>)>>), <<"S","e","e"," ","P","a","c","k"," ","S","k","a","t","e","r",".">>)
PackSkaterEntry == RawEntry(<<"p","a","c","k","-","s","k","a","t","e","r">>, <<"P","a","c","k"," ","S","k","a","t","e","r">>, Undefined, <<"A"," ","S","k","a","t","e","r"," ","i","n"," ","t","h","e"," ","P","a","c","k",".">>)
NoPackEntry == RawEntry(<<"n","o","-","p","a","c","k">>, <<"N","o"," ","P","a","c","k">>, Undefined, <<"T","h","e","r","e"," ","i","s"," ","n","o"," ","P","a","c","k",".">>)
StarPassEntry == RawEntry(<<"s","t","a","r","-","p","a","s","s">>, <<"P","a","s","s","i","n","g"," ","t","h","e"," ","S","t","a","r"," ","/"," ","S","t","a","r"," ","P","a","s","s">>, Undefined,
                          <<"H","a","n","d","i","n","g"," ","o","v","e","r"," ","T","h","e"," ","S","t","a","r",".">>)
TheStarEntry == RawEntry(<<"t","h","e","-","s","t","a","r">>, <<"T","h","e"," ","S","t","a","r">>, JArr(<<JStr(<<"s","t","a","r">>)>>), <<"A"," ","h","e","l","m","e","t"," ","c","o","v","e","r",".">>)
ZoneEntry == RawEntry(<<"p","a","c","k","-","z","o","n","e">>, <<"Z","o","n","e">>, Undefined, <<"W","h","e","r","e"," ","t","h","e"," ","P","a","c","k"," ","i","s",".">>)

\* an entry of the WFTDA glossary whose title has pattern metacharacters
PivotEntry == RawEntry(<<"p","i","v","o","t","-","b","l","o","c","k","e","r">>, <<"P","i","v","o","t"," ","B","l","o","c","k","e","r"," ","(","P","i","v","o","t",")">>, Undefined, <<"T","h","e"," ","P","i","v","o","t",".">>)
MetaEntryLists == {<<PivotEntry>>, <<PackEntry, PivotEntry>>}

Terms == {PackEntry, PackSkaterEntry, NoPackEntry, StarPassEntry, TheStarEntry, ZoneEntry}

\* raw entry lists: distinct terms in any order
RawEntryLists(n) == {a \in SeqsUpTo(Terms, n) : IsInjective(a)}

RawGlossary(entries) == JObj([entries |-> JArr(entries)])

Words == {<<"P","a","c","k">>, <<"S","k","a","t","e","r">>, <<" ">>, <<";">>}

PackSentence == <<"T","h","e"," ","P","a","c","k"," ","S","k","a","t","e","r"," ","j","o","i","n","e","d"," ","t","h","e"," ","P","a","c","k",".">>
StarSentence == <<"P","a","s","s","i","n","g"," ","t","h","e"," ","S","t","a","r"," ","/"," ","S","t","a","r"," ","P","a","s","s">>
SampleTexts == {PackSentence, StarSentence, <<"Z","o","n","e">>, <<"P","a","c","k","a","g","i","n","g"," ","(","p","a","c","k",")",","," ","\"","p","a","c","k","s","\"","!">>}

Texts == {Concat(ws) : ws \in SeqsUpTo(Words, MaxWords)} \cup SampleTexts

\* the shapes of section forests with n nodes: a forest is the sequence of
\* its trees, a tree the forest of its children
RECURSIVE ForestsOfSize(_)
ForestsOfSize(n) ==
    IF n = 0 THEN {<<>>}
    ELSE UNION {{<<first>> \o others : first \in ForestsOfSize(k),
                                       others \in ForestsOfSize(n - 1 - k)} :
                k \in 0..(n - 1)}

\* a section of a given shape; ids are the position among the siblings, the
\* sections at even positions have a description that is no string and no
\* reference id
RECURSIVE SectionsOf(_)
SectionsOf(forest) ==
    [i \in 1..Len(forest) |->
        JObj([id |-> JStr(<<"s">> \o NumberToString(i)),
              referenceId |-> IF i % 2 = 1 THEN JStr(<<"r">> \o NumberToString(i)) ELSE Undefined,
              title |-> JStr(<<"S","e","c","t","i","o","n">>),
              description |-> IF i % 2 = 1 THEN JStr(<<"I","n"," ","t","h","e"," ","P","a","c","k",".">>) ELSE Null,
              sections |-> IF forest[i] = <<>> THEN Undefined
                           ELSE JArr(SectionsOf(forest[i]))])]

\* the documents of a given shape; a document without sections has an empty
\* list at odd positions and no list at even ones
DocumentsOf(forest) ==
    [i \in 1..Len(forest) |->
        JObj([id |-> JStr(<<"d">> \o NumberToString(i)),
              title |-> JStr(<<"D","o","c","u","m","e","n","t">>),
              description |-> JStr(<<"A","b","o","u","t"," ","t","h","e"," ","P","a","c","k"," ","S","k","a","t","e","r">>),
              sections |-> IF forest[i] = <<>>
                           THEN (IF i % 2 = 1 THEN JArr(<<>>) ELSE Undefined)
                           ELSE JArr(SectionsOf(forest[i]))])]

DocumentShapes ==
    {f \in UNION {ForestsOfSize(n) : n \in 0..MaxNodes} : Len(f) <= MaxDocuments}

LibraryOf(docs, entries) ==
    JObj([title |-> JStr(<<"R","u","l","e","s">>),
          description |-> JStr(<<"R","u","l","e","s"," ","f","o","r"," ","t","h","e"," ","P","a","c","k",".">>),
          reference |-> Undefined,
          documents |-> JArr(docs),
          appendices |-> JObj([id |-> JStr(<<"a","p","p","e","n","d","i","c","e","s">>),
                               title |-> JStr(<<"A","p","p","e","n","d","i","x">>),
                               description |-> JStr(<<"S","i","g","n","a","l","s">>)]),
          glossary |-> RawGlossary(entries)])

LibraryGlossaries == {<<>>, <<PackEntry>>, <<PackEntry, PackSkaterEntry>>}

Libraries ==
    {LibraryOf(DocumentsOf(f), entries) : f \in DocumentShapes, entries \in LibraryGlossaries}

\* this.inputFilePath
inputFilePath == <<<<"d","o","c","s">>, <<"r","o","o","t",".","j","s","o","n">>>>

JsonFile(value) == [kind |-> "json", value |-> value]
TextFile(s) == [kind |-> "text", text |-> s]

\* an input storage that holds the library in one file
StorageOf(library) == [p \in {inputFilePath} |-> JsonFile(library)]

EmptyObject == JObj([k \in {} |-> Undefined])

\* the files of the input storages the resolver is run on
PathA == <<<<"d","o","c","s">>, <<"a",".","j","s","o","n">>>>
PathB == <<<<"d","o","c","s">>, <<"s","u","b">>, <<"b",".","j","s","o","n">>>>
PathText == <<<<"d","o","c","s">>, <<"t",".","m","d">>>>
PathSubText == <<<<"d","o","c","s">>, <<"s","u","b">>, <<"t",".","m","d">>>>
PathElsewhere == <<<<"a",".","j","s","o","n">>>>

RefA == JStr(<<"j","s","o","n",":",".","/","a",".","j","s","o","n">>)
RefB == JStr(<<"j","s","o","n",":","s","u","b","/","b",".","j","s","o","n">>)
RefText == JStr(<<"m","a","r","k","d","o","w","n",":","t",".","m","d">>)
Plain == JStr(<<"p","l","a","i","n">>)

Leaves == {Plain, JNum(1), Null, RefA, RefB, RefText}

RootValues ==
    {JNum(1), Plain, Null}
    \cup {JArr(<<l>>) : l \in Leaves}
    \cup {JObj([title |-> l]) : l \in Leaves}
    \cup {JObj([title |-> Plain, reference |-> l]) : l \in Leaves}
    \cup {JObj([appendices |-> JObj([title |-> l])]) : l \in Leaves}
    \cup {JObj([documents |-> JArr(<<JObj([description |-> l]), Plain>>)]) : l \in Leaves}
    \cup {JObj([reference |-> RefA, description |-> RefText])}

\* what docs/a.json may be (NoFile: there is no such file)
NoFile == [kind |-> "none"]

ChoicesA ==
    {NoFile,
     TextFile(<<" ", "NL">>),
     TextFile(<<"{","\"","t","i","t","l","e","\"",":">>),
     JsonFile(JObj([title |-> Plain])),
     JsonFile(JObj([title |-> Plain, reference |-> Null])),
     JsonFile(JObj([reference |-> RefB])),
     JsonFile(JObj([reference |-> JStr(<<"j","s","o","n",":","r","o","o","t",".","j","s","o","n">>)])),
     JsonFile(JObj([description |-> RefText]))}

\* what docs/sub/b.json may be
ChoicesB ==
    {NoFile,
     JsonFile(JObj([title |-> Plain])),
     JsonFile(JObj([description |-> RefText])),
     JsonFile(JObj([reference |-> JStr(<<"j","s","o","n",":",".",".","/","a",".","j","s","o","n">>)]))}

\* what docs/t.md may be: the second and the third text start like a reference
ChoicesText == {TextFile(<<"S","o","m","e"," ","*","t","e","x","t","*">>), TextFile(<<"m","a","r","k","d","o","w","n",":","s","u","b","/","t",".","m","d">>),
                TextFile(<<"j","s","o","n",":","r","o","o","t",".","j","s","o","n">>)}

\* what docs/sub/t.md may be: the second text starts like a reference
ChoicesSubText == {TextFile(<<"T","e","x","t"," ","i","n"," ","s","u","b">>), TextFile(<<"m","a","r","k","d","o","w","n",":","t",".","m","d">>)}

ResolverStorage(root, a, b, t, u) ==
    LET paths == {inputFilePath, PathText, PathSubText, PathElsewhere}
                 \cup (IF a = NoFile THEN {} ELSE {PathA})
                 \cup (IF b = NoFile THEN {} ELSE {PathB})
    IN [p \in paths |->
          IF p = inputFilePath THEN root
          ELSE IF p = PathA THEN a
          ELSE IF p = PathB THEN b
          ELSE IF p = PathText THEN t
          ELSE IF p = PathSubText THEN u
          ELSE JsonFile(JObj([title |-> JStr(<<"e","l","s","e","w","h","e","r","e">>)]))]

ResolverStorages ==
    {ResolverStorage(JsonFile(v), a, b, t, u) :
        v \in RootValues, a \in ChoicesA, b \in ChoicesB, t \in ChoicesText,
        u \in ChoicesSubText}
    \cup {ResolverStorage(TextFile(<<>>), NoFile, NoFile, t, u) :
             t \in ChoicesText, u \in ChoicesSubText}

----------------------------------------------------------------------------
(* The run: compile() *)

NoOutput == [p \in {} |-> [kind |-> "directory"]]

\* a destination that holds what an earlier run of another library left
StaleData == JStr(<<"s","t","a","l","e">>)
StaleOutput ==
    LET paths == {<<>>,
                  <<<<"l","i","b","r","a","r","y",".","j","s","o","n">>>>,
                  <<<<"g","l","o","s","s","a","r","y">>>>,
                  <<<<"g","l","o","s","s","a","r","y">>, <<"o","l","d",".","j","s","o","n">>>>,
                  <<<<"o","l","d",".","j","s","o","n">>>>}
    IN [p \in paths |->
          IF p \in {<<>>, <<<<"g","l","o","s","s","a","r","y">>>>} THEN [kind |-> "directory"]
          ELSE [kind |-> "file", data |-> StaleData]]

Destinations == {NoOutput, StaleOutput}

\* inputs whose resolution fails: a json: target that is not there, one that
\* is no JSON, a markdown: target that is not there
MissingText == JStr(<<"m","a","r","k","d","o","w","n",":","m","i","s","s","i","n","g",".","m","d">>)
BrokenStorages ==
    {ResolverStorage(JsonFile(JObj([title |-> Plain, appendices |-> RefA])),
                     NoFile, NoFile, TextFile(<<"T">>), TextFile(<<"T">>)),
     ResolverStorage(JsonFile(JObj([title |-> Plain, appendices |-> RefA])),
                     TextFile(<<"{","\"","t","i","t","l","e","\"",":">>), NoFile, TextFile(<<"T">>), TextFile(<<"T">>)),
     ResolverStorage(JsonFile(JObj([title |-> Plain, description |-> MissingText])),
                     NoFile, NoFile, TextFile(<<"T">>), TextFile(<<"T">>))}

\* inputs whose root file holds no value: white space only, or null
AbsentRootStorages ==
    {[p \in {inputFilePath} |-> TextFile(<<" ", "NL">>)],
     [p \in {inputFilePath} |-> TextFile(<<>>)],
     [p \in {inputFilePath} |-> JsonFile(Null)]}

Idle ==
    /\ libraryJSON = Undefined
    /\ documents = EmptyObject
    /\ appendices = EmptyObject
    /\ glossary = EmptyObject
    /\ written = 0
    /\ error = "none"
    /\ argument = Undefined
    /\ result = Undefined
    /\ reads = <<>>
    /\ heap = EmptyHeap

Init ==
    /\ pc = "read"
    /\ files \in {StorageOf(library) : library \in Libraries} \cup BrokenStorages
                \cup AbsentRootStorages
    /\ output \in Destinations
    /\ before = output
    /\ Idle

Throw(kind) == pc' = "failed" /\ error' = kind

\* the first stage when the destination is removed before the input is read
ReadAfterClearing ==
    /\ pc = "read"
    /\ LET r == readJSONFileAndResolveFiles(files, inputFilePath, {})
       IN IF r.t = "diverges" THEN pc' = "diverges" /\ UNCHANGED <<libraryJSON, error>>
          ELSE IF r.t = "error" THEN Throw(r.kind) /\ UNCHANGED libraryJSON
          ELSE pc' = "parseDocuments" /\ libraryJSON' = r /\ UNCHANGED error
    /\ reads' = ReadsOfLoad(files, inputFilePath, {})
    /\ output' = ApplyOperation(output, Rm(<<>>))
    /\ UNCHANGED <<heap, before, files, documents, appendices, glossary, written, argument, result>>

\* this.libraryJSON = await this.#readJSONFileAndResolveFiles(this.inputFilePath)
Read ==
    /\ pc = "read"
    /\ LET r == readJSONFileAndResolveFiles(files, inputFilePath, {})
       IN IF r.t = "diverges" THEN pc' = "diverges" /\ UNCHANGED <<libraryJSON, error>>
          ELSE IF r.t = "error" THEN Throw(r.kind) /\ UNCHANGED libraryJSON
          ELSE pc' = "parseDocuments" /\ libraryJSON' = r /\ UNCHANGED error
    /\ reads' = ReadsOfLoad(files, inputFilePath, {})
    /\ UNCHANGED <<heap, before, files, documents, appendices, glossary, output, written, argument, result>>

\* this.#documents = this.#parseDocuments(this.libraryJSON.documents)
ParseDocuments ==
    /\ pc = "parseDocuments"
    /\ LET r == IF libraryJSON.t = "undefined" THEN Error("TypeError")
                ELSE IF libraryJSON.t # "object" THEN parseDocuments(Undefined)
                ELSE parseDocuments(Get(libraryJSON, "documents"))
       IN IF IsBad(r) THEN Throw(r.kind) /\ UNCHANGED documents
          ELSE pc' = "parseAppendices" /\ documents' = r /\ UNCHANGED error
    /\ UNCHANGED <<heap, reads, before, files, libraryJSON, appendices, glossary, output, written, argument, result>>

\* this.#glossary = this.#parseAppendices(this.libraryJSON.appendices)
ParseAppendices ==
    /\ pc = "parseAppendices"
    /\ glossary' = parseAppendices(Get(libraryJSON, "appendices"))
    /\ pc' = "parseGlossary"
    /\ UNCHANGED <<heap, reads, before, files, libraryJSON, documents, appendices, output, written, error,
                   argument, result>>

\* this.#glossary = this.#parseGlossary(this.libraryJSON.glossary)
ParseGlossary ==
    /\ pc = "parseGlossary"
    /\ LET rawGlossary == Get(libraryJSON, "glossary")
       IN IF rawGlossary.t # "object" \/ Get(rawGlossary, "entries").t # "array"
          THEN Throw("TypeError") /\ UNCHANGED glossary
          ELSE pc' = "links" /\ glossary' = parseGlossary(rawGlossary) /\ UNCHANGED error
    /\ UNCHANGED <<heap, reads, before, files, libraryJSON, documents, appendices, output, written, argument, result>>

\* this.#deepCompileGlossaryLinks()
DeepCompileGlossaryLinks ==
    /\ pc = "links"
    /\ LET r == deepCompileGlossaryLinks(libraryJSON, documents, glossary)
       IN /\ libraryJSON' = r.libraryJSON
          /\ documents' = r.documents
          /\ glossary' = r.glossary
    /\ pc' = "write"
    /\ UNCHANGED <<heap, reads, before, files, appendices, output, written, error, argument, result>>

\* await this.#writeOutput(), one storage operation at a time
WriteOperations == writeOutput(libraryJSON, documents, appendices, glossary)

WriteStep ==
    /\ pc = "write"
    /\ output' = ApplyOperation(output, WriteOperations[written + 1])
    /\ written' = written + 1
    /\ pc' = IF written + 1 = Len(WriteOperations) THEN "done" ELSE "write"
    /\ UNCHANGED <<heap, reads, before, files, libraryJSON, documents, appendices, glossary, error, argument, result>>

\* the storage operation that is due is rejected (rm, mkdir and writeFile are
\* awaited and nothing catches what they throw): compile() ends with that error
WriteFails ==
    /\ pc = "write"
    /\ Throw("EACCES")
    /\ UNCHANGED <<heap, reads, before, files, libraryJSON, documents, appendices, glossary,
                   output, written, argument, result>>

Next ==
    \/ Read
    \/ ParseDocuments
    \/ ParseAppendices
    \/ ParseGlossary
    \/ DeepCompileGlossaryLinks
    \/ WriteStep
    \/ WriteFails

Spec == Init /\ [][Next]_vars

----------------------------------------------------------------------------
(* The resolver on its own: any input storage, one call *)

InitResolve ==
    /\ pc = "read"
    /\ files \in ResolverStorages
    /\ output = NoOutput
    /\ before = NoOutput
    /\ Idle

SpecResolve == InitResolve /\ [][Read]_vars

----------------------------------------------------------------------------
(* The glossary builder on its own: any raw entry list, one call *)

InitGlossary ==
    /\ pc = "parseGlossary"
    /\ \E entries \in RawEntryLists(MaxEntries) \cup MetaEntryLists :
          /\ files = StorageOf(JObj([glossary |-> RawGlossary(entries)]))
          /\ libraryJSON = JObj([glossary |-> RawGlossary(entries)])
    /\ documents = EmptyObject
    /\ appendices = EmptyObject
    /\ glossary = EmptyObject
    /\ output = NoOutput
    /\ written = 0
    /\ error = "none"
    /\ argument = Undefined
    /\ result = Undefined
    /\ reads = <<>>
    /\ heap = EmptyHeap
    /\ before = NoOutput

SpecGlossary == InitGlossary /\ [][ParseGlossary]_vars

----------------------------------------------------------------------------
(* #compileGlossaryLinks on its own: a built glossary, any text, one call *)

\* the two entries of the Pack / Pack Skater scenario, as the input gives them
BareEntry(id, title) == JObj([id |-> JStr(id), title |-> JStr(title)])
ScenarioEntries == <<BareEntry(<<"p","a","c","k">>, <<"P","a","c","k">>), BareEntry(<<"p","a","c","k","-","s","k","a","t","e","r">>, <<"P","a","c","k"," ","S","k","a","t","e","r">>)>>

\* an entry whose id has another entry's title as its middle segment
ZoneEntries == <<BareEntry(<<"p","a","c","k">>, <<"P","a","c","k">>), BareEntry(<<"t","h","e","-","p","a","c","k","-","z","o","n","e">>, <<"Z","o","n","e">>)>>

BuiltGlossaries ==
    {parseGlossary(RawGlossary(entries)) :
        entries \in RawEntryLists(MaxLinkEntries)
                    \cup {ScenarioEntries, Reverse(ScenarioEntries), ZoneEntries}}

InitLinks ==
    /\ pc = "compile"
    /\ glossary \in BuiltGlossaries
    /\ argument \in {JStr(t) : t \in Texts} \cup {Null, Undefined}
    /\ files = NoOutput
    /\ libraryJSON = Undefined
    /\ documents = EmptyObject
    /\ appendices = EmptyObject
    /\ output = NoOutput
    /\ written = 0
    /\ error = "none"
    /\ result = Undefined
    /\ reads = <<>>
    /\ heap = EmptyHeap
    /\ before = NoOutput

\* result = this.#compileGlossaryLinks(argument)
CompileGlossaryLinks ==
    /\ pc = "compile"
    /\ result' = compileGlossaryLinks(glossary, argument)
    /\ glossary' = IF IsNullish(argument) THEN glossary
                   ELSE Set(glossary, "entries",
                            JArr([i \in 1..Len(Get(glossary, "entries").v) |->
                                    ResetLastIndex(Get(glossary, "entries").v[i])]))
    /\ pc' = "compiled"
    /\ UNCHANGED <<heap, reads, before, files, libraryJSON, documents, appendices, output, written, error, argument>>

SpecLinks == InitLinks /\ [][CompileGlossaryLinks]_vars

----------------------------------------------------------------------------
(* The resolver on its own, its objects kept apart: any input storage, one call *)

\* what the call leaves: the heap, and this.libraryJSON when it returns
ReadOnHeapDone(r) ==
    /\ heap' = [r.h EXCEPT !.result = r.slot]
    /\ IF r.slot.t = "diverges" THEN pc' = "diverges" /\ UNCHANGED <<libraryJSON, error>>
       ELSE IF r.slot.t = "error" THEN Throw(r.slot.kind) /\ UNCHANGED libraryJSON
       ELSE pc' = "parseDocuments" /\ libraryJSON' = Deref(r.h.cells, r.slot) /\ UNCHANGED error

\* this.libraryJSON = await this.#readJSONFileAndResolveFiles(this.inputFilePath)
ReadOnHeap ==
    /\ pc = "read"
    /\ ReadOnHeapDone(readJSONFileAndResolveFilesOnHeap(files, EmptyHeap, inputFilePath, {}))
    /\ reads' = ReadsOfLoad(files, inputFilePath, {})
    /\ UNCHANGED <<before, files, documents, appendices, glossary, output, written, argument, result>>

SpecHeap == InitResolve /\ [][ReadOnHeap]_vars

----------------------------------------------------------------------------
(* Properties of a run of compile(): Spec *)

\* the library as the input file gives it
InputLibrary == files[inputFilePath].value
InputDocuments == ElementsOf(Get(InputLibrary, "documents"))
InputEntries == ElementsOf(Get(Get(InputLibrary, "glossary"), "entries"))

\* the number of sections of a forest of raw sections, at any depth
RECURSIVE NodeCount(_)
NodeCount(rawSections) ==
    IF rawSections = <<>> THEN 0
    ELSE 1 + NodeCount(SectionsOrNone(Head(rawSections))) + NodeCount(Tail(rawSections))

IsWritten(path) == path \in DOMAIN output /\ output[path].kind = "file"
WrittenAt(path) == output[path].data

DocumentsFile == <<DocumentsName \o JsonExtension>>
GlossaryFile == <<GlossaryName \o JsonExtension>>
LibraryFile == <<LibraryName \o JsonExtension>>

\* the count of a written node is the sum of 1 + the count of each child it lists
ChildrenLaw(data, key) ==
    LET children == ElementsOf(Get(data, key))
    IN Get(data, "descendantCount").v
       = SumOf([i \in 1..Len(children) |-> 1 + Get(children[i], "descendantCount").v])

\* every node of a raw forest has its file below parentPath, with the number
\* of its strict descendants as its count
RECURSIVE SectionsCounted(_, _)
SectionsCounted(rawSections, parentPath) ==
    \A i \in 1..Len(rawSections) :
        LET raw == rawSections[i]
            path == FileIn(parentPath, Get(raw, "id"))
        IN /\ IsWritten(path)
           /\ Get(WrittenAt(path), "descendantCount") = JNum(NodeCount(SectionsOrNone(raw)))
           /\ ChildrenLaw(WrittenAt(path), "sections")
           /\ SectionsCounted(SectionsOrNone(raw), DirectoryIn(parentPath, Get(raw, "id")))

\* C1: when the run is done, the descendantCount written for every node (each
\* section at any depth, each document, the documents collection, the glossary,
\* the appendices and the library root) is the number of its strict
\* descendants in the input, which is the sum over its children of 1 + the
\* child's count; leaf sections, glossary entries and the appendices have 0.
C1_DescendantCounts ==
    pc = "done" =>
        /\ SectionsCounted(InputDocuments, <<DocumentsName>>)
        /\ IsWritten(DocumentsFile)
        /\ Get(WrittenAt(DocumentsFile), "descendantCount") = JNum(NodeCount(InputDocuments))
        /\ ChildrenLaw(WrittenAt(DocumentsFile), "documents")
        /\ IsWritten(GlossaryFile)
        /\ Get(WrittenAt(GlossaryFile), "descendantCount") = JNum(Len(InputEntries))
        /\ ChildrenLaw(WrittenAt(GlossaryFile), "entries")
        /\ \A i \in 1..Len(ElementsOf(Get(WrittenAt(GlossaryFile), "entries"))) :
              Get(ElementsOf(Get(WrittenAt(GlossaryFile), "entries"))[i], "descendantCount")
              = JNum(0)
        /\ IsWritten(LibraryFile)
        /\ Get(Get(WrittenAt(LibraryFile), "documents"), "descendantCount")
           = JNum(NodeCount(InputDocuments))
        /\ Get(Get(WrittenAt(LibraryFile), "appendices"), "descendantCount") = JNum(0)
        /\ Get(Get(WrittenAt(LibraryFile), "glossary"), "descendantCount")
           = JNum(Len(InputEntries))
        /\ Get(WrittenAt(LibraryFile), "descendantCount")
           = JNum(3 + NodeCount(InputDocuments) + Len(InputEntries))

\* a finished run on a library with a section inside a section and with
\* glossary entries
C1_Witness ==
    /\ pc = "done"
    /\ Len(InputEntries) > 0
    /\ \E path \in DOMAIN output :
          /\ Len(path) = 3
          /\ output[path].kind = "file"
          /\ Get(output[path].data, "descendantCount").v > 0

\* a description after the link compiler has run on it
Linked(raw, node) ==
    Get(raw, "description").t = "string"
    => Get(node, "description") = compileGlossaryLinks(glossary, Get(raw, "description"))

RECURSIVE SectionsLinked(_, _)
SectionsLinked(rawSections, sections) ==
    \A i \in 1..Len(rawSections) :
        /\ Linked(rawSections[i], sections[i])
        /\ SectionsLinked(SectionsOrNone(rawSections[i]), SectionsOrNone(sections[i]))

RawEntryOf(entry) ==
    CHOOSE raw \in Range(InputEntries) : Get(raw, "id") = Get(entry, "id")

\* C2: after link compilation with a glossary that has entries and with at
\* least one document, every description that is a string has gone through the
\* glossary substitution: the library's, every document's, every section's at
\* any depth and every glossary entry's, whatever the shape of the library
\* (documents with an empty or absent sections list included).
C2_EveryDescriptionLinked ==
    (/\ pc = "write"
     /\ written = 0
     /\ Len(Get(glossary, "entries").v) > 0
     /\ Len(Get(documents, "documents").v) > 0)
    => /\ Linked(InputLibrary, libraryJSON)
       /\ SectionsLinked(InputDocuments, Get(documents, "documents").v)
       /\ \A i \in 1..Len(Get(glossary, "entries").v) :
             Linked(RawEntryOf(Get(glossary, "entries").v[i]), Get(glossary, "entries").v[i])

----------------------------------------------------------------------------
(* Properties of one call of #compileGlossaryLinks: SpecLinks *)

Entries == Get(glossary, "entries").v

\* position i of s is outside s or holds a boundary character
BoundaryAt(s, i) == i < 1 \/ i > Len(s) \/ s[i] \in glossaryEntryAdjacentCharacters

\* the positions where w stands in s as a word of its own
Standalone(s, w) ==
    {i \in 1..Len(s) :
        /\ i + Len(w) - 1 <= Len(s)
        /\ SubSeq(s, i, i + Len(w) - 1) = w
        /\ BoundaryAt(s, i - 1)
        /\ BoundaryAt(s, i + Len(w))}

Marker(matched, id) == <<"$">> \o matched \o <<":">> \o id \o <<"$">>

Compiled == pc = "compiled" /\ argument.t = "string" /\ Len(Entries) > 0

\* C3: for every text and every glossary entry, each occurrence of the
\* entry's title as a standalone word (a boundary character or the start/end
\* of the text on both sides) is wrapped in one marker $title:id$ that stands
\* between the same boundaries; all occurrences count, two occurrences that a
\* single boundary character separates included.
C3_EveryOccurrenceWrapped ==
    Compiled =>
        \A i \in 1..Len(Entries) :
            Cardinality(Standalone(result.v,
                                   Marker(Get(Entries[i], "title").v, Get(Entries[i], "id").v)))
            = Cardinality(Standalone(argument.v, Get(Entries[i], "title").v))

IsScenarioGlossary ==
    /\ Len(Entries) = 2
    /\ {Get(Entries[i], "id").v : i \in 1..2} = {<<"p","a","c","k">>, <<"p","a","c","k","-","s","k","a","t","e","r">>}
    /\ \A i \in 1..2 :
          /\ Get(Entries[i], "aliases").t = "undefined"
          /\ Get(Entries[i], "title").v
             = (IF Get(Entries[i], "id").v = <<"p","a","c","k">> THEN <<"P","a","c","k">> ELSE <<"P","a","c","k"," ","S","k","a","t","e","r">>)

\* C4: with the glossary {pack: 'Pack', pack-skater: 'Pack Skater'} the text
\* 'The Pack Skater joined the Pack.' compiles to one marker around
\* 'Pack Skater' for pack-skater and one around the last 'Pack' for pack.
C4_PackSkaterScenario ==
    (Compiled /\ IsScenarioGlossary /\ argument = JStr(PackSentence))
    => result = JStr(<<"T","h","e"," ","$","P","a","c","k"," ","S","k","a","t","e","r",":","p","a","c","k","-","s","k","a","t","e","r","$"," ","j","o","i","n","e","d"," ","t","h","e"," ","$","P","a","c","k",":","p","a","c","k","$",".">>)

\* text split at every sep
RECURSIVE SplitAt(_, _, _)
SplitAt(text, sep, current) ==
    IF text = <<>> THEN <<current>>
    ELSE IF Head(text) = sep THEN <<current>> \o SplitAt(Tail(text), sep, <<>>)
    ELSE SplitAt(Tail(text), sep, Append(current, Head(text)))

\* what stands between the two delimiters of a marker: matched text without
\* a colon, a colon, the id of a glossary entry
IsMarkerBody(segment) ==
    \E n \in 2..Len(segment) :
        /\ segment[n] = ":"
        /\ \A m \in 1..(n - 1) : segment[m] # ":"
        /\ \E i \in 1..Len(Entries) :
              SubSeq(segment, n + 1, Len(segment)) = Get(Entries[i], "id").v

\* C5: in a compiled text (the input holds no delimiter) the markers neither
\* nest nor overlap: the delimiters pair up, and between the two delimiters
\* of every pair stand a matched text and an id, no part of another marker.
C5_MarkersNeverNest ==
    (Compiled /\ "$" \notin Range(argument.v) /\ ":" \notin Range(argument.v))
    => LET segments == SplitAt(result.v, "$", <<>>)
       IN /\ Len(segments) % 2 = 1
          /\ \A k \in 1..Len(segments) : k % 2 = 0 => IsMarkerBody(segments[k])

----------------------------------------------------------------------------
(* Properties of one call of #parseGlossary: SpecGlossary *)

Built == pc = "links"

\* F.conflicts holds the id of E
HasConflict(F, E) == Get(E, "id") \in Range(ElementsOf(Get(F, "conflicts")))

\* the title and the aliases of an entry
TermsOf(entry) == <<Get(entry, "title").v>> \o AliasesOf(entry)

\* the pattern of E finds a match in the title or in an alias of F
MatchesTermOf(E, F) ==
    \E n \in 1..Len(TermsOf(F)) : Matches(Get(E, "regExp"), TermsOf(F)[n])

\* C6: after glossary building, for every ordered pair of distinct entries
\* (E, F), F.conflicts holds E.id exactly when the matcher of E matches the
\* title of F or one of the aliases of F.
C6_ConflictsIffMatch ==
    Built =>
        \A i, j \in 1..Len(Entries) :
            i # j => (HasConflict(Entries[j], Entries[i])
                      <=> MatchesTermOf(Entries[i], Entries[j]))

IdBefore(E, F) == compareStrings(Get(E, "id").v, Get(F, "id").v) < 0

\* C7: in the final order, E stands before F whenever F.conflicts holds E.id
\* and E.conflicts does not hold F.id, and two entries that no conflict
\* relates stand in ascending order of their ids.
C7_ConflictAwareOrder ==
    Built =>
        \A i, j \in 1..Len(Entries) :
            /\ (HasConflict(Entries[j], Entries[i]) /\ ~HasConflict(Entries[i], Entries[j]))
               => i < j
            /\ (/\ ~HasConflict(Entries[j], Entries[i])
                /\ ~HasConflict(Entries[i], Entries[j])
                /\ IdBefore(Entries[i], Entries[j]))
               => i < j

\* small occurs somewhere in big, letter case aside
OccursIn(small, big) ==
    \E i \in 1..(Len(big) - Len(small) + 1) :
        \A k \in 1..Len(small) : Canonicalize(big[i + k - 1]) = Canonicalize(small[k])

\* no title or alias of an entry overlaps a title or alias of another entry
NoTextualOverlap ==
    \A i, j \in 1..Len(Entries) :
        i # j => \A a \in Range(TermsOf(Entries[i])), b \in Range(TermsOf(Entries[j])) :
                    ~OccursIn(a, b) /\ ~OccursIn(b, a)

\* C8: when no title or alias of an entry overlaps a title or alias of
\* another entry, glossary building leaves every conflicts list empty and the
\* entries in ascending order of their ids.
C8_NoOverlapNoConflicts ==
    (Built /\ NoTextualOverlap) =>
        /\ \A i \in 1..Len(Entries) : ElementsOf(Get(Entries[i], "conflicts")) = <<>>
        /\ \A i, j \in 1..Len(Entries) : i < j => IdBefore(Entries[i], Entries[j])

----------------------------------------------------------------------------
(* Properties of one call of #readJSONFileAndResolveFiles: SpecResolve *)

\* the call has returned: every file it named was there and well-formed, and
\* no file was inside itself
Resolved == pc = "parseDocuments"

\* the strings that are values anywhere in a tree
RECURSIVE StringsIn(_)
StringsIn(x) ==
    IF x.t = "string" THEN {x.v}
    ELSE IF x.t = "array" THEN UNION {StringsIn(x.v[i]) : i \in 1..Len(x.v)}
    ELSE IF x.t = "object" THEN UNION {StringsIn(x.v[k]) : k \in DOMAIN x.v}
    ELSE {}

IsReference(s) == StartsWith(s, JsonScheme) \/ StartsWith(s, MarkdownScheme)

\* the original statement of C9: a tree the resolver returns holds no string
\* that begins with json: or markdown:
C9_NoReferenceLeft ==
    Resolved => \A s \in StringsIn(libraryJSON) : ~IsReference(s)

\* C9: in a tree the resolver returns, every string that begins with json: or
\* markdown: is the whole text of a file, which a markdown: reference put
\* there as it is; no reference written in a JSON file is left.
C9_OnlyLoadedTextLeft ==
    Resolved =>
        \A s \in StringsIn(libraryJSON) :
            IsReference(s) => \E p \in DOMAIN files : files[p].kind = "text" /\ files[p].text = s

\* a returned tree with references of both kinds replaced, one by a text that
\* begins with markdown:
C9_Witness ==
    /\ Resolved
    /\ files[inputFilePath].kind = "json"
    /\ \E s \in StringsIn(files[inputFilePath].value) : StartsWith(s, JsonScheme)
    /\ \E s \in StringsIn(libraryJSON) : StartsWith(s, MarkdownScheme)

\* C10: a tree without any string that begins with json: or markdown:
\* (scalar, sequence or mapping, null values included) is returned by the
\* resolver as it is.
C10_IdentityWithoutReferences ==
    (/\ Resolved
     /\ files[inputFilePath].kind = "json"
     /\ \A s \in StringsIn(files[inputFilePath].value) : ~IsReference(s))
    => libraryJSON = files[inputFilePath].value

\* the strings of a file that a run can take for a reference: the string
\* values of a JSON file that begin with a scheme, the text of another file
\* when it begins with one
ReferencesIn(file) ==
    IF file.kind = "json" THEN {s \in StringsIn(file.value) : IsReference(s)}
    ELSE {s \in {file.text} : IsReference(s)}

\* reads[i] is what some reference of the file read as reads[j] names, seen
\* from the directory of that file
NamedBy(i, j) ==
    /\ reads[j] \in DOMAIN files
    /\ \E r \in ReferencesIn(files[reads[j]]) :
          reads[i] = resolveRelativeFilePath(reads[j], extractFilePath(r))

\* C11: every file that a run reads after the root file is read from the path
\* that joins the directory of a file read before it, which holds the
\* reference, with the path part of that reference; nothing is read from a
\* path that a reference names only when seen from another file's directory.
C11_ReferencesRelativeToFile ==
    Resolved => \A i \in 2..Len(reads) : \E j \in 1..(i - 1) : NamedBy(i, j)

----------------------------------------------------------------------------
(* Properties of a run of compile(), the destination included: Spec *)

Done == pc = "done"

AppendicesFile == <<AppendicesName \o JsonExtension>>

\* C12: after a run, appendices.json holds the appendices of the input as they
\* are, and library.json lists Appendices as one leaf: descendantCount 0.
C12_AppendicesPassThrough ==
    Done =>
        /\ IsWritten(AppendicesFile)
        /\ WrittenAt(AppendicesFile) = stringify(Get(InputLibrary, "appendices"))
        /\ IsWritten(LibraryFile)
        /\ Get(Get(WrittenAt(LibraryFile), "appendices"), "descendantCount") = JNum(0)

FilesOf(storage) == {p \in DOMAIN storage : storage[p].kind = "file"}

\* the files that the storage operations ops write
ArtifactFiles(ops) ==
    {ops[i].path : i \in {j \in 1..Len(ops) : ops[j].op = "writeFile"}}

\* what file p holds is what one of the first n storage operations of ops
\* wrote there
WrittenByRun(ops, p, n) ==
    \E i \in 1..n : /\ ops[i].op = "writeFile"
                    /\ ops[i].path = p
                    /\ ops[i].data = output[p].data

\* the files at the destination are artifacts of ops, and all of them when
\* the run is done
OnlyArtifacts(ops) ==
    /\ \A p \in FilesOf(output) : WrittenByRun(ops, p, written)
    /\ Done => FilesOf(output) = ArtifactFiles(ops)

ListedUnder(data, keys) ==
    UNION {IF Get(data, k).t = "array" THEN Range(Get(data, k).v)
           ELSE IF Get(data, k).t = "object" THEN {Get(data, k)}
           ELSE {} : k \in keys}

\* the path a pointer names, seen from the directory of the artifact at path
PointedFrom(path, jsonPath) == resolveRelativeFilePath(path, jsonPath)

\* a listed child has id, title and descendantCount, and its pointer leads
\* from the listing artifact to a written artifact of the node with that id
\* and title
ListsOneOfItsNodes(path, child) ==
    /\ Get(child, "id").t = "string"
    /\ Get(child, "title").t = "string"
    /\ Get(child, "descendantCount").t = "number"
    /\ Get(child, "jsonPath").t = "string"
    /\ IsWritten(PointedFrom(path, Get(child, "jsonPath").v))
    /\ Get(WrittenAt(PointedFrom(path, Get(child, "jsonPath").v)), "id") = Get(child, "id")
    /\ Get(WrittenAt(PointedFrom(path, Get(child, "jsonPath").v)), "title") = Get(child, "title")

ChildKeys == {"sections", "documents", "entries", "appendices", "glossary"}

\* C14: after a run, every child that a written artifact lists carries the
\* child's id, title and descendantCount, and a jsonPath which, seen from the
\* directory of the listing artifact, is the path of an artifact written in
\* this run for the node with that id.
C14_ChildPointersResolve ==
    Done => \A path \in FilesOf(output) :
                \A child \in ListedUnder(WrittenAt(path), ChildKeys) :
                    ListsOneOfItsNodes(path, child)

----------------------------------------------------------------------------
(* More properties of one call of #compileGlossaryLinks: SpecLinks *)

\* the returned text is one marker and nothing else: the whole argument,
\* wrapped for an entry of the glossary
IsOneMarker ==
    /\ Compiled
    /\ result.t = "string"
    /\ \E i \in 1..Len(Entries) : result.v = Marker(argument.v, Get(Entries[i], "id").v)

\* C15: a text that one call has turned into a marker is returned as it is
\* by a second call with the same glossary: no entry matches inside the text
\* part or the id part of the marker.
C15_MarkerSurvivesSecondCall ==
    IsOneMarker => compileGlossaryLinks(glossary, result) = result

\* \w and its complement
IsWordCharacter(c) == IsLetter(c) \/ IsDigit(c) \/ c = "_"
WordBoundaryAt(s, i) == i < 1 \/ i > Len(s) \/ ~IsWordCharacter(s[i])

SameIgnoringCase(a, b) ==
    Len(a) = Len(b) /\ \A i \in 1..Len(a) : Canonicalize(a[i]) = Canonicalize(b[i])

\* w stands somewhere in s, in any case, with a non-word character or an end
\* of s on each side
StandsAsWord(s, w) ==
    \E i \in 1..Len(s) :
        /\ i + Len(w) - 1 <= Len(s)
        /\ SameIgnoringCase(SubSeq(s, i, i + Len(w) - 1), w)
        /\ WordBoundaryAt(s, i - 1)
        /\ WordBoundaryAt(s, i + Len(w))

\* C16: the matcher of an entry matches in a text exactly when the title or
\* an alias stands there, in any case, between non-word characters or the
\* ends of the text: never inside a longer word, and next to any non-word
\* character (';' for one).
C16_MatcherWordBounded ==
    Compiled =>
        \A i \in 1..Len(Entries) :
            Matches(Get(Entries[i], "regExp"), argument.v)
            <=> \E n \in 1..Len(TermsOf(Entries[i])) :
                   StandsAsWord(argument.v, TermsOf(Entries[i])[n])

----------------------------------------------------------------------------
(* More properties of one call of #parseGlossary: SpecGlossary *)

\* a text with a backslash before each of its pattern metacharacters
Escaped(text) ==
    Concat([i \in 1..Len(text) |->
              IF text[i] \in MetaCharacters THEN <<"\\", text[i]>> ELSE <<text[i]>>])

\* C17: the pattern text of an entry is its title and aliases, each with a
\* backslash before every metacharacter, joined by |; and the matcher matches
\* the title and every alias as they are written.
C17_MetacharactersEscaped ==
    Built =>
        \A i \in 1..Len(ElementsOf(Get(glossary, "entries"))) :
            LET entry == ElementsOf(Get(glossary, "entries"))[i]
            IN /\ Get(entry, "regExp").source
                  = Join([n \in 1..Len(TermsOf(entry)) |-> Escaped(TermsOf(entry)[n])], <<"|">>)
               /\ \A n \in 1..Len(TermsOf(entry)) :
                     Matches(Get(entry, "regExp"), TermsOf(entry)[n])

----------------------------------------------------------------------------
(* Properties of a run of compile() that fails: Spec *)

\* a file of the input cannot be read, or a json: target is no JSON
ResolutionFails == readJSONFileAndResolveFiles(files, inputFilePath, {}).t = "error"

\* the readFile call that came last is the one that failed
LastReadFailed ==
    /\ reads # <<>>
    /\ \/ reads[Len(reads)] \notin DOMAIN files
       \/ IsBad(readJSONFile(files, reads[Len(reads)]))

\* C18: with an input of which a referenced file cannot be read or a json:
\* target is no JSON, the run ends in the first stage with that error: the
\* failed read is the last one (nothing is tried again), no storage operation
\* runs and the destination stays as the run found it.  In any run the
\* destination is as the run found it until the link stage is over.
C18_FailedReadLeavesDestination ==
    /\ ResolutionFails =>
          /\ pc \in {"read", "failed"}
          /\ output = before
          /\ written = 0
          /\ pc = "failed" => /\ error \in {"ENOENT", "SyntaxError"}
                              /\ error = readJSONFileAndResolveFiles(files, inputFilePath, {}).kind
                              /\ LastReadFailed
    /\ pc \in {"read", "parseDocuments", "parseAppendices", "parseGlossary", "links"} =>
          output = before /\ written = 0

\* a run that failed on a json: target that is no JSON, with files of an
\* earlier run at the destination
C18_Witness ==
    /\ pc = "failed"
    /\ error = "SyntaxError"
    /\ PathA \in Range(reads)
    /\ FilesOf(before) # {}

\* the destination holds some of the artifacts of ops and not all
SomeNotAll(ops) ==
    /\ {p \in FilesOf(output) : WrittenByRun(ops, p, written)} # {}
    /\ {p \in FilesOf(output) : WrittenByRun(ops, p, written)} # ArtifactFiles(ops)

PartialOutput == written >= 1 /\ SomeNotAll(WriteOperations)

\* C19: a run that fails, at whatever stage (a read, a parse, a storage
\* operation of the write stage), ends with the error and leaves no part of
\* its output behind: the destination does not hold some of the run's
\* artifacts without holding all of them.
C19_NoPartialOutput ==
    pc = "failed" => error # "none" /\ ~PartialOutput

----------------------------------------------------------------------------
(* The link stage of a run of compile(): Spec *)

\* C20: when the glossary of the input has no entries or the input has no
\* documents, the link stage throws nothing and changes nothing: the library,
\* the documents with their sections and the glossary entries, with every
\* description, are after it what they were before it.
C20_NoOpWithoutEntriesOrDocuments ==
    [][(pc = "links" /\ (Len(InputEntries) = 0 \/ Len(InputDocuments) = 0))
         => /\ pc' = "write"
            /\ error' = "none"
            /\ libraryJSON' = libraryJSON
            /\ documents' = documents
            /\ glossary' = glossary]_vars

\* the link stage is over for a library with glossary entries, a description
\* that names one of them, and no documents
C20_Witness ==
    /\ pc = "write"
    /\ written = 0
    /\ Len(InputEntries) > 0
    /\ Len(InputDocuments) = 0
    /\ Get(libraryJSON, "description") = Get(InputLibrary, "description")
    /\ Matches(Get(Get(glossary, "entries").v[1], "regExp"), Get(libraryJSON, "description").v)

----------------------------------------------------------------------------
(* A run of compile() on a root file without a value: Spec *)

\* the root file is empty, holds white space only, or holds null
RootAbsent ==
    \/ files[inputFilePath].kind = "text" /\ IsBlank(files[inputFilePath].text)
    \/ files[inputFilePath].kind = "json" /\ IsNullish(files[inputFilePath].value)

\* C21: when the root file is empty, holds white space only or holds null,
\* the resolver returns an empty result (undefined) without an error, and the
\* run of compile() does not fail because of it.
C21_AbsentRootNotAnError ==
    RootAbsent => /\ pc # "read" => libraryJSON = Undefined
                  /\ pc # "failed"
                  /\ error = "none"

----------------------------------------------------------------------------
(* More properties of one call of #readJSONFileAndResolveFiles: SpecResolve *)

\* the strings of the JSON file at path p that begin with a given scheme
SchemeStringsOf(p, scheme) ==
    IF files[p].kind = "json"
    THEN {s \in StringsIn(files[p].value) : StartsWith(s, scheme)}
    ELSE {}

\* the text of the file that a reference s written in the file at p names
TextNamedBy(p, s) == FileText(files[resolveRelativeFilePath(p, extractFilePath(s))])

\* reads[i] is the path part of a reference written in a JSON file that was
\* read before, joined to the directory of a file that was read before
NamedInJSON(i) ==
    \E j, k \in 1..(i - 1) :
        \E r \in SchemeStringsOf(reads[j], JsonScheme) \cup SchemeStringsOf(reads[j], MarkdownScheme) :
            reads[i] = resolveRelativeFilePath(reads[k], extractFilePath(r))

\* C22: for every markdown: string written in a JSON file that the run has
\* loaded, the root file or a file loaded through json: references, the
\* returned tree holds the whole text of the file it names, as it is,
\* whatever the text begins with; and that text is not examined for
\* references: every file read is named by a string of a JSON file.
C22_MarkdownTextVerbatim ==
    Resolved =>
        /\ \A j \in 1..Len(reads) :
              \A s \in SchemeStringsOf(reads[j], MarkdownScheme) :
                  TextNamedBy(reads[j], s) \in StringsIn(libraryJSON)
        /\ \A i \in 2..Len(reads) : NamedInJSON(i)

\* no text file of the storage begins with a scheme
NoTextLikeReference ==
    \A p \in DOMAIN files : files[p].kind = "text" => ~IsReference(files[p].text)

\* the files that the json: strings of the JSON file at p name, seen from the
\* directory of p
JsonTargets(p) ==
    IF p \in DOMAIN files
    THEN {resolveRelativeFilePath(p, extractFilePath(s)) : s \in SchemeStringsOf(p, JsonScheme)}
    ELSE {}

\* the files that chains of json: references lead to from the files of S
RECURSIVE ReachableFrom(_)
ReachableFrom(S) ==
    IF UNION {JsonTargets(p) : p \in S} \subseteq S THEN S
    ELSE ReachableFrom(S \cup UNION {JsonTargets(p) : p \in S})

\* some file that the root file leads to leads to itself
ReferenceCycle ==
    \E p \in ReachableFrom({inputFilePath}) : p \in ReachableFrom(JsonTargets(p))

\* C23: when no file that chains of json: references lead to from the root
\* file leads to itself, the resolver terminates (it returns, or it throws on
\* a file it cannot read or parse); when some such file leads to itself, the
\* resolver never returns a tree.
C23_TerminatesIffAcyclic ==
    pc # "read" =>
        /\ ~ReferenceCycle => pc \in {"parseDocuments", "failed"}
        /\ ReferenceCycle => pc # "parseDocuments"

\* the half of C23 about cycles
CycleNeverReturns == (pc # "read" /\ ReferenceCycle) => pc # "parseDocuments"

----------------------------------------------------------------------------
(* The artifacts of a run of compile(): Spec *)

\* the ids of the nodes of a list are distinct, and so at every depth below
RECURSIVE UniqueAmongSiblings(_)
UniqueAmongSiblings(nodes) ==
    /\ \A i, j \in 1..Len(nodes) : Get(nodes[i], "id") = Get(nodes[j], "id") => i = j
    /\ \A i \in 1..Len(nodes) : UniqueAmongSiblings(SectionsOrNone(nodes[i]))

\* one artifact for each node of a forest: at <directory>/<id>.json for the
\* nodes of the list, then below <directory>/<id> for the sections of each
RECURSIVE NodeArtifacts(_, _)
NodeArtifacts(nodes, directory) ==
    UNION {{[path |-> Append(directory, Get(nodes[i], "id").v \o JsonExtension),
             id |-> Get(nodes[i], "id")]}
           \cup NodeArtifacts(SectionsOrNone(nodes[i]),
                              Append(directory, Get(nodes[i], "id").v)) :
           i \in 1..Len(nodes)}

IndexFiles == {DocumentsFile, AppendicesFile, GlossaryFile, LibraryFile}

\* the artifacts that the nodes of the input library call for
InputArtifacts ==
    NodeArtifacts(InputDocuments, <<DocumentsName>>)
    \cup NodeArtifacts(InputEntries, <<GlossaryName>>)

\* the files at the destination are those of nodes and the four index files,
\* each node has a path of its own and its artifact there, and no two of the
\* storage operations ops write the same file
OneArtifactPerNode(nodes, ops) ==
    /\ FilesOf(output) = {a.path : a \in nodes} \cup IndexFiles
    /\ Cardinality({a.path : a \in nodes}) = NodeCount(InputDocuments) + Len(InputEntries)
    /\ \A a \in nodes : Get(WrittenAt(a.path), "id") = a.id
    /\ \A i, j \in 1..Len(ops) :
          (ops[i].op = "writeFile" /\ ops[j].op = "writeFile" /\ ops[i].path = ops[j].path)
          => i = j

\* C24: with document ids unique in the library and section ids unique among
\* siblings, a finished run has written one artifact for each document at
\* documents/<docId>.json, one for each section at documents/<ids of its
\* ancestors from the document down>/<sectionId>.json, one for each glossary
\* entry at glossary/<entryId>.json, and the four index artifacts, and nothing
\* else; no two nodes share a path and no file is written twice.
C24_OneArtifactPerNode ==
    (Done /\ UniqueAmongSiblings(InputDocuments) /\ UniqueAmongSiblings(InputEntries))
    => OneArtifactPerNode(InputArtifacts, WriteOperations)

\* a finished run on a library with glossary entries in which two sections
\* with different parents have the same id
C24_Witness ==
    /\ Done
    /\ Len(InputEntries) > 0
    /\ \E p, q \in FilesOf(output) :
          p # q /\ Len(p) >= 3 /\ Len(q) >= 3 /\ p[Len(p)] = q[Len(q)]

\* the list of pointers of an artifact names the children of the node, one
\* entry each with id, jsonPath, title and descendantCount and nothing more;
\* a node without children has no list
PointsAtChildren(list, children) ==
    IF children = <<>> THEN list.t = "undefined"
    ELSE /\ list.t = "array"
         /\ Len(list.v) = Len(children)
         /\ \A k \in 1..Len(children) :
               /\ DOMAIN list.v[k].v \subseteq {"id", "jsonPath", "title", "descendantCount"}
               /\ Get(list.v[k], "id") = Get(children[k], "id")
               /\ Get(list.v[k], "title") = Get(children[k], "title")

\* the artifact of every node of a forest, at any depth, holds the node's own
\* id and title, no key outside ownKeys and sections, and a list of pointers
\* to the node's children
RECURSIVE ArtifactsShallow(_, _, _)
ArtifactsShallow(nodes, directory, ownKeys) ==
    \A i \in 1..Len(nodes) :
        /\ DOMAIN WrittenAt(FileIn(directory, Get(nodes[i], "id"))).v
              \subseteq ownKeys \cup {"sections"}
        /\ Get(WrittenAt(FileIn(directory, Get(nodes[i], "id"))), "id") = Get(nodes[i], "id")
        /\ Get(WrittenAt(FileIn(directory, Get(nodes[i], "id"))), "title") = Get(nodes[i], "title")
        /\ PointsAtChildren(Get(WrittenAt(FileIn(directory, Get(nodes[i], "id"))), "sections"),
                            SectionsOrNone(nodes[i]))
        /\ ArtifactsShallow(SectionsOrNone(nodes[i]),
                            Append(directory, Get(nodes[i], "id").v), ownKeys)

\* the original statement of C25: the artifact of a document or section holds
\* only the node's id, title, description and descendantCount and a list of
\* pointers to its children
C25_OnlyOwnFourFields ==
    Done => ArtifactsShallow(InputDocuments, <<DocumentsName>>,
                             {"id", "title", "description", "descendantCount"})

\* C25: the artifact of a document or section holds only the node's own id,
\* title, description and descendantCount, for a section with a reference id
\* that id as well (under the key refereneId), and a list of pointers to its
\* immediate children, each with the child's id, jsonPath, title and
\* descendantCount: no description and no entry of a node two or more levels
\* below the node.
C25_OnlyOwnFieldsAndPointers ==
    Done => ArtifactsShallow(InputDocuments, <<DocumentsName>>,
                             {"id", "refereneId", "title", "description", "descendantCount"})

\* a finished run on a library with a section inside a section: the artifact
\* of the document points to the outer section, which has a reference id
C25_Witness ==
    /\ Done
    /\ \E path \in FilesOf(output) :
          /\ Len(path) = 4
          /\ IsWritten(<<path[1], path[2] \o JsonExtension>>)
          /\ Get(WrittenAt(<<path[1], path[2] \o JsonExtension>>), "sections").t = "array"
          /\ Get(WrittenAt(<<path[1], path[2], path[3] \o JsonExtension>>), "refereneId").t = "string"

----------------------------------------------------------------------------
(* The order of the stages of a run of compile(): Spec *)

\* the description in the artifact of every node of a forest, at any depth,
\* is the description of the input after the glossary substitution
RECURSIVE ArtifactsLinked(_, _)
ArtifactsLinked(nodes, directory) ==
    \A i \in 1..Len(nodes) :
        /\ Linked(nodes[i], WrittenAt(FileIn(directory, Get(nodes[i], "id"))))
        /\ ArtifactsLinked(SectionsOrNone(nodes[i]), Append(directory, Get(nodes[i], "id").v))

BeforeWriteStage == pc \in {"read", "parseDocuments", "parseAppendices", "parseGlossary", "links"}

\* every document of the input has at least one section
EveryDocumentHasSections ==
    \A i \in 1..Len(InputDocuments) : SectionsOrNone(InputDocuments[i]) # <<>>

\* C26: no storage operation runs before the link stage is over, and after a
\* run on a library with glossary entries and documents the description in
\* every artifact (library.json, every document, every section, every
\* glossary entry) is the link-compiled description, never the text as the
\* input gave it.
C26_ArtifactsHoldLinkedText ==
    /\ BeforeWriteStage => written = 0 /\ output = before
    /\ (Done /\ Len(InputEntries) > 0 /\ Len(InputDocuments) > 0)
       => /\ Linked(InputLibrary, WrittenAt(LibraryFile))
          /\ ArtifactsLinked(InputDocuments, <<DocumentsName>>)
          /\ ArtifactsLinked(InputEntries, <<GlossaryName>>)

----------------------------------------------------------------------------
(* The glossary builder and the order of its input: SpecGlossary *)

\* the lists that hold the elements of a (distinct) in some order
PermutationsOf(a) == {b \in [1..Len(a) -> Range(a)] : Range(b) = Range(a)}

\* what a built list of entries says: the ids in their order, and with each
\* the set of the ids in its conflicts list
OutcomeOf(entries) ==
    [i \in 1..Len(entries) |->
        [id |-> Get(entries[i], "id"),
         conflicts |-> Range(ElementsOf(Get(entries[i], "conflicts")))]]

\* C27: glossary building gives the same outcome for every order of the raw
\* entry list: each entry gets the same set of conflict ids and the final
\* order of the entries is the same.
C27_OrderIndependent ==
    Built =>
        \A b \in PermutationsOf(InputEntries) :
            OutcomeOf(ElementsOf(Get(parseGlossary(RawGlossary(b)), "entries")))
            = OutcomeOf(Entries)

----------------------------------------------------------------------------
(* What one call of #compileGlossaryLinks adds to its text: SpecLinks *)

\* compiled is text with nothing but opening delimiters $ and suffixes :id$
\* put in: every character of text is there, in order and as it was
RECURSIVE OnlyInserted(_, _, _)
OnlyInserted(compiled, text, id) ==
    IF compiled = <<>> THEN text = <<>>
    ELSE \/ /\ text # <<>>
            /\ Head(compiled) = Head(text)
            /\ OnlyInserted(Tail(compiled), Tail(text), id)
         \/ /\ Head(compiled) = "$"
            /\ OnlyInserted(Tail(compiled), text, id)
         \/ /\ StartsWith(compiled, <<":">> \o id \o <<"$">>)
            /\ OnlyInserted(SubSeq(compiled, Len(id) + 3, Len(compiled)), text, id)

\* the text after the first k entries of the glossary have been applied
TextAfter(k) == ApplyEntries(SubSeq(Entries, 1, k), argument.v)

\* C28: the compiled text is the argument with marker syntax put in and
\* nothing else changed: taking out, entry by entry from the last applied to
\* the first, the opening $ and the :id$ suffixes that the entry put in gives
\* the argument back, the same characters in the same case and order.
C28_OnlyMarkersInserted ==
    Compiled =>
        /\ result.v = TextAfter(Len(Entries))
        /\ \A k \in 1..Len(Entries) :
              OnlyInserted(TextAfter(k), TextAfter(k - 1), Get(Entries[k], "id").v)

\* a call in which both entries of the glossary have put markers in
C28_Witness ==
    /\ Compiled
    /\ Len(Entries) = 2
    /\ TextAfter(1) # argument.v
    /\ TextAfter(2) # TextAfter(1)

----------------------------------------------------------------------------
(* The order of the storage operations of the write stage: Spec *)

\* every pointer of every artifact at the destination leads to a file that
\* is there
PointersLeadToFiles ==
    \A path \in FilesOf(output) :
        \A child \in ListedUnder(WrittenAt(path), ChildKeys) :
            /\ Get(child, "jsonPath").t = "string"
            /\ IsWritten(PointedFrom(path, Get(child, "jsonPath").v))

\* C29: the artifacts are written one at a time, each after all the artifacts
\* it points to: at every point of the write stage every pointer of an
\* artifact at the destination leads to an artifact that is there already
\* (sections before their parent, documents before documents.json, glossary
\* entries before glossary.json), and library.json is there only when the run
\* is done.
C29_WrittenAfterWhatItPointsTo ==
    written >= 1 =>
        /\ PointersLeadToFiles
        /\ Cardinality(FilesOf(output)) <= written
        /\ IsWritten(LibraryFile) => Done
        /\ IsWritten(DocumentsFile)
           => \A a \in NodeArtifacts(InputDocuments, <<DocumentsName>>) : IsWritten(a.path)
        /\ IsWritten(GlossaryFile)
           => \A a \in NodeArtifacts(InputEntries, <<GlossaryName>>) : IsWritten(a.path)

\* the write stage is under way: the artifact of a document that lists
\* sections is there and documents.json is not yet
C29_Witness ==
    /\ pc = "write"
    /\ written >= 1
    /\ ~IsWritten(DocumentsFile)
    /\ \E path \in FilesOf(output) :
          /\ Len(path) = 2
          /\ path[1] = DocumentsName
          /\ Get(WrittenAt(path), "sections").t = "array"

----------------------------------------------------------------------------
(* The objects of one call of #readJSONFileAndResolveFiles: SpecHeap *)

\* the addresses of the cells that a slot leads to
RECURSIVE CellsOf(_, _)
CellsOf(cells, slot) ==
    IF slot.t # "ref" THEN {}
    ELSE {slot.a} \cup UNION {CellsOf(cells, cells[slot.a].v[k]) : k \in DOMAIN cells[slot.a].v}

\* C30: the resolver changes no object it is given: what JSON.parse made of
\* a file stands, after the call, for the value it stood for when it was made
\* (at whatever point the call ends), and the tree the call returns has no
\* array or object in common with it; the returned tree is the tree with the
\* references replaced.
C30_InputNotMutated ==
    /\ \A i \in 1..Len(heap.parsed) :
          Deref(heap.cells, heap.parsed[i].slot) = heap.parsed[i].value
    /\ Resolved =>
          /\ \A i \in 1..Len(heap.parsed) :
                CellsOf(heap.cells, heap.result) \cap CellsOf(heap.cells, heap.parsed[i].slot) = {}
          /\ Deref(heap.cells, heap.result) = readJSONFileAndResolveFiles(files, inputFilePath, {})

\* a call that has returned a tree in which a reference of the root file is
\* replaced by what another file holds
C30_Witness ==
    /\ Resolved
    /\ Len(heap.parsed) >= 2
    /\ heap.parsed[1].slot.t = "ref"
    /\ heap.result.t = "ref"
    /\ Deref(heap.cells, heap.result) # heap.parsed[1].value

====
